---- MODULE Spec2Model ----
(***************************************************************************)
(* The job aggregation pipeline of employment-barage: the three source     *)
(* adapters (Remotive, HN Who's Hiring, Arbeitnow), their text cleaning    *)
(* and field heuristics, and JobAggregator::fetch_all.                     *)
(*                                                                         *)
(* A Rust String is a sequence of one-character strings; the bullet        *)
(* U+2022 is the single character "BULLET".  Option<T> is a sequence of    *)
(* length 0 (None) or 1 (Some).                                            *)
(***************************************************************************)
EXTENDS Integers, Sequences, FiniteSets, TLC

VARIABLES
    \* ---- JobAggregator::fetch_all ----
    aggPc,        \* "idle" | "calling" | "returned"
    aggArgs,      \* [keywords, location, limit] of the fetch_all call
    aggIdx,       \* index into sources of the adapter being invoked
    all_jobs,     \* the running result of fetch_all
    aggResult,    \* None, or Some of the Result<Vec<Job>> fetch_all returned
    warnings,     \* the tracing::warn! records, in order: [source, error]
    infos,        \* the tracing::info! records, in order: [source, count]
    calls,        \* every fetch_jobs invocation: [source, keywords, location, limit]
    returned,     \* per adapter index, the Result its fetch_jobs returned
    \* ---- HNWhoIsHiringClient::fetch_jobs ----
    hnPc,         \* "idle" | "ResolveRoot" | "Scan" | "FetchChildIds" | "AwaitBatch"
                  \* | "Done" | "Error"
    hnArgs,       \* None, or Some([keywords, location, limit]) of the fetch_jobs call
    hnSubmitted,  \* user.submitted, while get_latest_hiring_thread_id runs
    hnScanPos,    \* number of submissions the scan has examined
    hnThreadId,   \* None, or Some(thread_id)
    hnCommentIds, \* comment_ids
    hnChunkStart, \* number of comment_ids before the current chunk
    hnFetch,      \* per index of comment_ids, the get_item future: [st |-> "none"],
                  \* [st |-> "inflight"], [st |-> "err"] or [st |-> "ok", kind |-> k]
    hnJobs,       \* jobs
    hnError,      \* None, or Some of the error fetch_jobs returned
    hnFailed,     \* which lookups have failed so far: "user", "candidate", "root"
    \* ---- environment ----
    nextId,       \* the next fresh Uuid
    clock,        \* the reading of Utc::now()
    world,        \* how much the upstream APIs can answer with (fixed in a run)
    upstream,     \* [thread, arbeitnow]: None, or Some of the payload received
    \* ---- the text functions on their own ----
    cleaner,      \* "none" | "remotive" | "arbeitnow" | "hn"
    passes,       \* number of applications of the cleaner so far
    prev,         \* the argument of the last application
    cur,          \* the result of the last application (the input before any)
    salIn,        \* the argument of parse_salary
    salOut,       \* None before the call, then Some of what parse_salary returned
    salDone,      \* whether parse_salary has been called
    \* ---- a mapper or a heuristic called on its own ----
    fn,           \* "none", or the name of the function called
    fnIn,         \* the argument of the calls
    fnOut,        \* what the calls made so far returned, in order
    \* ---- SqliteJobRepository ----
    dbRows,       \* the rows of table jobs, in insertion order
    upCalls       \* per caller, the upsert_by_source call it runs

aggVars == <<aggPc, aggArgs, aggIdx, all_jobs, aggResult, warnings, infos, calls, returned>>
hnVars == <<hnPc, hnArgs, hnSubmitted, hnScanPos, hnThreadId, hnCommentIds,
            hnChunkStart, hnFetch, hnJobs, hnError, hnFailed>>
envVars == <<nextId, clock, world, upstream>>
cleanVars == <<cleaner, passes, prev, cur>>
salVars == <<salIn, salOut, salDone>>
callVars == <<fn, fnIn, fnOut>>
repoVars == <<dbRows, upCalls>>
vars == <<aggVars, hnVars, envVars, cleanVars, salVars, callVars, repoVars>>

None == <<>>
Some(x) == <<x>>
IsSome(o) == Len(o) = 1
Unwrap(o) == o[1]
unwrap_or(o, d) == IF IsSome(o) THEN o[1] ELSE d

(***************************************************************************)
(* Strings.                                                                *)
(***************************************************************************)
UpperChars == <<"A","B","C","D","E","F","G","H","I","J","K","L","M","N","O","P","Q","R","S","T","U","V","W","X","Y","Z">>
LowerChars == <<"a","b","c","d","e","f","g","h","i","j","k","l","m","n","o","p","q","r","s","t","u","v","w","x","y","z">>
Digits == {"0", "1", "2", "3", "4", "5", "6", "7", "8", "9"}
Whitespace == {" ", "\n", "\t", "\r"}

LowerChar(c) ==
    IF \E i \in 1..26 : UpperChars[i] = c
    THEN LowerChars[CHOOSE i \in 1..26 : UpperChars[i] = c]
    ELSE c
UpperChar(c) ==
    IF \E i \in 1..26 : LowerChars[i] = c
    THEN UpperChars[CHOOSE i \in 1..26 : LowerChars[i] = c]
    ELSE c
to_lowercase(s) == [i \in 1..Len(s) |-> LowerChar(s[i])]
to_uppercase(s) == [i \in 1..Len(s) |-> UpperChar(s[i])]

DigitValue(c) == CHOOSE n \in 0..9 : <<"0","1","2","3","4","5","6","7","8","9">>[n + 1] = c

\* p occurs in s at index i
MatchAt(s, p, i) ==
    /\ i >= 1
    /\ i + Len(p) - 1 <= Len(s)
    /\ \A k \in 1..Len(p) : s[i + k - 1] = p[k]
\* str::contains
Contains(s, p) == \E i \in 1..(Len(s) + 1) : MatchAt(s, p, i)
\* the least element of a non-empty set of integers
Least(C) == CHOOSE j \in C : \A k \in C : j <= k
Greatest(C) == CHOOSE j \in C : \A k \in C : k <= j
\* the least index >= i where s holds a character of set cs; past the end if none
FindChar(s, cs, i) ==
    LET C == {j \in i..Len(s) : s[j] \in cs}
    IN  IF C # {} THEN Least(C) ELSE IF i > Len(s) THEN i ELSE Len(s) + 1
\* the least index >= i where s holds a character outside cs; past the end if none
SkipChars(s, cs, i) ==
    LET C == {j \in i..Len(s) : s[j] \notin cs}
    IN  IF C # {} THEN Least(C) ELSE IF i > Len(s) THEN i ELSE Len(s) + 1
Slice(s, i, j) == IF j < i THEN <<>> ELSE SubSeq(s, i, j)

\* str::replace: every non-overlapping occurrence of from, left to right
RECURSIVE ReplaceFrom(_, _, _, _)
ReplaceFrom(s, from, to, i) ==
    LET C == {j \in i..Len(s) : MatchAt(s, from, j)}
    IN  IF C = {} THEN Slice(s, i, Len(s))
        ELSE Slice(s, i, Least(C) - 1) \o to
             \o ReplaceFrom(s, from, to, Least(C) + Len(from))
replace(s, from, to) == ReplaceFrom(s, from, to, 1)

\* str::trim
trim(s) ==
    LET C == {j \in 1..Len(s) : s[j] \notin Whitespace}
    IN  IF C = {} THEN <<>> ELSE SubSeq(s, Least(C), Greatest(C))

\* Vec<&str>::join
RECURSIVE join(_, _)
join(parts, sep) ==
    IF Len(parts) = 0 THEN <<>>
    ELSE IF Len(parts) = 1 THEN parts[1]
    ELSE parts[1] \o sep \o join(Tail(parts), sep)

(***************************************************************************)
(* Text Normalizer: the three cleaning functions.                          *)
(***************************************************************************)
\* Regex <[^>]+> replaced by "": a match starts at a '<' whose next character
\* is not '>' and ends at the first '>' after it.
TagAt(s, j) ==
    /\ s[j] = "<"
    /\ FindChar(s, {">"}, j + 1) <= Len(s)
    /\ FindChar(s, {">"}, j + 1) > j + 1
RECURSIVE StripTagsFrom(_, _)
StripTagsFrom(s, i) ==
    LET C == {j \in i..Len(s) : TagAt(s, j)}
    IN  IF C = {} THEN Slice(s, i, Len(s))
        ELSE Slice(s, i, Least(C) - 1)
             \o StripTagsFrom(s, FindChar(s, {">"}, Least(C) + 1) + 1)
\* Regex::replace in place of replace_all: only the first tag is removed
strip_first_tag(s) ==
    LET C == {j \in 1..Len(s) : TagAt(s, j)}
    IN  IF C = {} THEN s
        ELSE Slice(s, 1, Least(C) - 1)
             \o Slice(s, FindChar(s, {">"}, Least(C) + 1) + 1, Len(s))
strip_tags(s) == StripTagsFrom(s, 1)

\* Regex \n{3,} replaced by "\n\n"
RECURSIVE CollapseFrom(_, _)
CollapseFrom(s, i) ==
    LET C == {j \in i..Len(s) : MatchAt(s, <<"\n", "\n", "\n">>, j)}
    IN  IF C = {} THEN Slice(s, i, Len(s))
        ELSE Slice(s, i, Least(C) - 1) \o <<"\n", "\n">>
             \o CollapseFrom(s, SkipChars(s, {"\n"}, Least(C)))
collapse_newlines(s) == CollapseFrom(s, 1)

\* Regex <h[1-6][^>]*>([^<]*)</h[1-6]> at index i: None, or Some([end, text])
HeadingAt(s, i) ==
    LET g == FindChar(s, {">"}, i + 3)
        l == FindChar(s, {"<"}, g + 1)
    IN  IF /\ MatchAt(s, <<"<","h">>, i)
           /\ i + 2 <= Len(s)
           /\ s[i + 2] \in {"1", "2", "3", "4", "5", "6"}
           /\ g <= Len(s)
           /\ MatchAt(s, <<"<","/","h">>, l)
           /\ l + 4 <= Len(s)
           /\ s[l + 3] \in {"1", "2", "3", "4", "5", "6"}
           /\ s[l + 4] = ">"
        THEN Some([end |-> l + 4, text |-> Slice(s, g + 1, l - 1)])
        ELSE None
\* h_re.replace_all(&result, "\n$1\n")
RECURSIVE HeadingsFrom(_, _)
HeadingsFrom(s, i) ==
    LET C == {j \in i..Len(s) : IsSome(HeadingAt(s, j))}
        m == HeadingAt(s, Least(C))[1]
    IN  IF C = {} THEN Slice(s, i, Len(s))
        ELSE Slice(s, i, Least(C) - 1) \o <<"\n">> \o m.text \o <<"\n">>
             \o HeadingsFrom(s, m.end + 1)
replace_headings(s) == HeadingsFrom(s, 1)

\* Regex <a[^>]*href="([^"]*)"[^>]*>([^<]*)</a> at index i: None, or
\* Some([end, href, text]).  The greedy [^>]* takes the last href=" of the
\* run of non-'>' characters after "<a" from which the rest still matches.
LinkTail(s, h) ==
    LET q == FindChar(s, {"\""}, h + 6)
        g == FindChar(s, {">"}, q + 1)
        l == FindChar(s, {"<"}, g + 1)
    IN  IF q <= Len(s) /\ g <= Len(s) /\ MatchAt(s, <<"<","/","a",">">>, l)
        THEN Some([end |-> l + 3, href |-> Slice(s, h + 6, q - 1),
                   text |-> Slice(s, g + 1, l - 1)])
        ELSE None
LinkAt(s, i) ==
    LET e == FindChar(s, {">"}, i + 2)
        H == {h \in (i + 2)..(e - 6) : MatchAt(s, <<"h","r","e","f","=","\"">>, h) /\ IsSome(LinkTail(s, h))}
    IN  IF MatchAt(s, <<"<","a">>, i) /\ H # {}
        THEN LinkTail(s, CHOOSE h \in H : \A k \in H : k <= h)
        ELSE None
\* link_re.replace_all(&result, "$2 ($1)")
RECURSIVE LinksFrom(_, _)
LinksFrom(s, i) ==
    LET C == {j \in i..Len(s) : IsSome(LinkAt(s, j))}
        m == LinkAt(s, Least(C))[1]
    IN  IF C = {} THEN Slice(s, i, Len(s))
        ELSE Slice(s, i, Least(C) - 1) \o m.text \o <<" ","(">> \o m.href \o <<")">>
             \o LinksFrom(s, m.end + 1)
replace_links(s) == LinksFrom(s, 1)

\* remotive.rs clean_html
remotive_clean_html(html) ==
    LET r1 == replace(html, <<"&","a","m","p",";">>, <<"&">>)
        r2 == replace(r1, <<"&","l","t",";">>, <<"<">>)
        r3 == replace(r2, <<"&","g","t",";">>, <<">">>)
        r4 == replace(r3, <<"&","n","b","s","p",";">>, <<" ">>)
        r5 == replace(r4, <<"&","q","u","o","t",";">>, <<"\"">>)
        r6 == replace(r5, <<"&","#","x","2","7",";">>, <<"'">>)
        r7 == replace(r6, <<"&","#","3","9",";">>, <<"'">>)
        r8 == replace(r7, <<"&","#","x","2","F",";">>, <<"/">>)
        b1 == replace(r8, <<"<","b","r",">">>, <<"\n">>)
        b2 == replace(b1, <<"<","b","r","/",">">>, <<"\n">>)
        b3 == replace(b2, <<"<","b","r"," ","/",">">>, <<"\n">>)
        b4 == replace(b3, <<"<","/","p",">">>, <<"\n","\n">>)
        b5 == replace(b4, <<"<","/","d","i","v",">">>, <<"\n">>)
        b6 == replace(b5, <<"<","/","l","i",">">>, <<"\n">>)
        b7 == replace(b6, <<"<","l","i",">">>, <<"BULLET"," ">>)
        b8 == replace(b7, <<"<","l","i"," ","s","t","y","l","e","=","\"","\"",">">>, <<"BULLET"," ">>)
    IN  trim(collapse_newlines(strip_tags(b8)))

\* arbeitnow.rs clean_html
arbeitnow_clean_html(html) ==
    LET r1 == replace(html, <<"&","a","m","p",";">>, <<"&">>)
        r2 == replace(r1, <<"&","l","t",";">>, <<"<">>)
        r3 == replace(r2, <<"&","g","t",";">>, <<">">>)
        r4 == replace(r3, <<"&","n","b","s","p",";">>, <<" ">>)
        r5 == replace(r4, <<"&","q","u","o","t",";">>, <<"\"">>)
        r6 == replace(r5, <<"&","#","x","2","7",";">>, <<"'">>)
        r7 == replace(r6, <<"&","#","3","9",";">>, <<"'">>)
        r8 == replace(r7, <<"&","#","x","2","6",";">>, <<"&">>)
        h  == replace_headings(r8)
        b1 == replace(h, <<"<","b","r",">">>, <<"\n">>)
        b2 == replace(b1, <<"<","b","r","/",">">>, <<"\n">>)
        b3 == replace(b2, <<"<","b","r"," ","/",">">>, <<"\n">>)
        b4 == replace(b3, <<"<","/","p",">">>, <<"\n","\n">>)
        b5 == replace(b4, <<"<","/","d","i","v",">">>, <<"\n">>)
        b6 == replace(b5, <<"<","/","l","i",">">>, <<"\n">>)
        b7 == replace(b6, <<"<","l","i",">">>, <<"BULLET"," ">>)
        b8 == replace(b7, <<"<","l","i"," ","s","t","y","l","e","=","\"","\"",">">>, <<"BULLET"," ">>)
    IN  trim(collapse_newlines(strip_tags(b8)))

\* hn_who_is_hiring.rs clean_hn_html
clean_hn_html(html) ==
    LET r1 == replace(html, <<"&","#","x","2","7",";">>, <<"'">>)
        r2 == replace(r1, <<"&","#","x","2","F",";">>, <<"/">>)
        r3 == replace(r2, <<"&","a","m","p",";">>, <<"&">>)
        r4 == replace(r3, <<"&","l","t",";">>, <<"<">>)
        r5 == replace(r4, <<"&","g","t",";">>, <<">">>)
        r6 == replace(r5, <<"&","q","u","o","t",";">>, <<"\"">>)
        r7 == replace(r6, <<"&","#","3","9",";">>, <<"'">>)
        p1 == replace(r7, <<"<","p",">">>, <<"\n","\n">>)
        p2 == replace(p1, <<"<","/","p",">">>, <<>>)
        l  == replace_links(p2)
    IN  trim(collapse_newlines(strip_tags(l)))

(***************************************************************************)
(* Field Heuristics: the salary parser (remotive.rs).                      *)
(***************************************************************************)
\* the value of a string of decimal digits
RECURSIVE DecimalValue(_)
DecimalValue(ds) ==
    IF Len(ds) = 0 THEN 0
    ELSE 10 * DecimalValue(SubSeq(ds, 1, Len(ds) - 1)) + DigitValue(ds[Len(ds)])
RECURSIVE Pow10(_)
Pow10(n) == IF n = 0 THEN 1 ELSE 10 * Pow10(n - 1)

\* (?:,\d{3})* from index j: the index after the last group
RECURSIVE CommaGroups(_, _)
CommaGroups(s, j) ==
    IF /\ j + 3 <= Len(s)
       /\ s[j] = ","
       /\ \A k \in 1..3 : s[j + k] \in Digits
    THEN CommaGroups(s, j + 4)
    ELSE j

\* Regex \$?(\d+(?:,\d{3})*(?:\.\d+)?)\s*k? at index i: None, or
\* Some([end, num]) with num the u32 the closure of parse_salary yields.
\* num_str.parse::<f64>() times 1000.0 and `as u32` is taken exactly: for the
\* texts of SalaryInputs the f64 product is exact and stays below 2^31.
NumberAt(s, i) ==
    LET d0 == IF s[i] = "$" THEN i + 1 ELSE i
        d1 == SkipChars(s, Digits, d0)
        d2 == CommaGroups(s, d1)
        d3 == IF d2 + 1 <= Len(s) /\ s[d2] = "." /\ s[d2 + 1] \in Digits
              THEN SkipChars(s, Digits, d2 + 1)
              ELSE d2
        d4 == SkipChars(s, Whitespace, d3)
        d5 == IF d4 <= Len(s) /\ s[d4] = "k" THEN d4 + 1 ELSE d4
        whole == SelectSeq(Slice(s, d0, d2 - 1), LAMBDA c : c # ",")
        frac == Slice(s, d2 + 1, d3 - 1)
        factor == IF d5 > d4 THEN 1000 ELSE 1
    IN  IF d0 <= Len(s) /\ s[d0] \in Digits
        THEN Some([end |-> d5 - 1,
                   num |-> ((DecimalValue(whole) * Pow10(Len(frac)) + DecimalValue(frac))
                             * factor) \div Pow10(Len(frac))])
        ELSE None

\* num_re.captures_iter(&salary) ... .collect(): the numbers, in order of appearance
RECURSIVE NumbersFrom(_, _)
NumbersFrom(s, i) ==
    LET C == {j \in i..Len(s) : IsSome(NumberAt(s, j))}
        m == NumberAt(s, Least(C))[1]
    IN  IF C = {} THEN <<>>
        ELSE <<m.num>> \o NumbersFrom(s, m.end + 1)

\* lines 194-210 with the smaller of the first two numbers as min, the larger as max
SalaryOfOrdered(numbers, is_hourly) ==
    LET period == IF is_hourly THEN "Hourly" ELSE "Annual"
        lo == IF numbers[1] <= numbers[2] THEN numbers[1] ELSE numbers[2]
        hi == IF numbers[1] <= numbers[2] THEN numbers[2] ELSE numbers[1]
    IN  IF Len(numbers) >= 2
        THEN Some([min |-> lo, max |-> hi, currency |-> "USD", period |-> period])
        ELSE IF Len(numbers) = 1
        THEN Some([min |-> numbers[1], max |-> numbers[1],
                   currency |-> "USD", period |-> period])
        ELSE None
\* the SalaryRange of parse_salary for the numbers found (lines 194-210)
SalaryOf(numbers, is_hourly) ==
    LET period == IF is_hourly THEN "Hourly" ELSE "Annual"
    IN  IF Len(numbers) >= 2
        THEN Some([min |-> numbers[1], max |-> numbers[2],
                   currency |-> "USD", period |-> period])
        ELSE IF Len(numbers) = 1
        THEN Some([min |-> numbers[1], max |-> numbers[1],
                   currency |-> "USD", period |-> period])
        ELSE None

\* parse_salary with is_hourly read from "/hour" and "per hour" only
parse_salary_without_hr(salary_str) ==
    LET salary == to_lowercase(salary_str)
        is_hourly == \/ Contains(salary, <<"/","h","o","u","r">>)
                     \/ Contains(salary, <<"p","e","r"," ","h","o","u","r">>)
    IN  SalaryOf(NumbersFrom(salary, 1), is_hourly)
parse_salary(salary_str) ==
    LET salary == to_lowercase(salary_str)
        is_hourly == \/ Contains(salary, <<"/","h","o","u","r">>)
                     \/ Contains(salary, <<"p","e","r"," ","h","o","u","r">>)
                     \/ Contains(salary, <<"/","h","r">>)
    IN  SalaryOf(NumbersFrom(salary, 1), is_hourly)

\* chrono can represent an instant t (in seconds) iff |t| <= TimestampLimit; the
\* bound stands for chrono's limit of about 8.2e12 seconds.
TimestampLimit == 9

(***************************************************************************)
(* Hacker News payloads                                                    *)
(***************************************************************************)
\* HN: the child items of a thread, without their id
HNCatalogue ==
    <<[by |-> Some(<<"p","g">>), text |-> Some(<<"A","c","m","e"," ","|"," ","R","u","s","t"," ","D","e","v"," ","|"," ","R","e","m","o","t","e"," ","(","U","S",")","<","p",">","R","u","s","t"," ","&","a","m","p",";"," ","A","W","S">>),
       time |-> Some(3), deleted |-> None, dead |-> None],
      [by |-> None, text |-> Some(<<"G","o","p","h","e","r"," ","i","s"," ","h","i","r","i","n","g"," ","G","o"," ","d","e","v","s","<","p",">","O","N","S","I","T","E"," ","B","e","r","l","i","n">>),
       time |-> None, deleted |-> Some(FALSE), dead |-> None],
      [by |-> None, text |-> None,
       time |-> Some(4), deleted |-> Some(TRUE), dead |-> None],
      [by |-> Some(<<"x">>), text |-> Some(<<"S","p","a","m"," ","|"," ","G","o"," ","|"," ","R","e","m","o","t","e">>),
       time |-> Some(TimestampLimit + 1), deleted |-> None, dead |-> Some(TRUE)],
      [by |-> Some(<<"y">>), text |-> None,
       time |-> None, deleted |-> None, dead |-> None]>>
\* HN: the titles a submission of whoishiring can have
HNTitles ==
    <<Some(<<"A","s","k"," ","H","N",":"," ","W","h","o"," ","i","s"," ","h","i","r","i","n","g","?"," ","(","M","a","y"," ","2","0","2","4",")">>),
      Some(<<"A","s","k"," ","H","N",":"," ","W","h","o"," ","w","a","n","t","s"," ","t","o"," ","b","e"," ","h","i","r","e","d","?"," ","(","M","a","y"," ","2","0","2","4",")">>),
      None>>

(***************************************************************************)
(* Field Heuristics of the thread-based adapter (hn_who_is_hiring.rs).     *)
(***************************************************************************)
\* str::split(c): the pieces between the occurrences of c
RECURSIVE SplitFrom(_, _, _)
SplitFrom(s, c, i) ==
    LET j == FindChar(s, {c}, i)
    IN  IF j > Len(s) THEN <<Slice(s, i, Len(s))>>
        ELSE <<Slice(s, i, j - 1)>> \o SplitFrom(s, c, j + 1)
split(s, c) == SplitFrom(s, c, 1)

\* str::split_whitespace: the maximal runs of non-whitespace
RECURSIVE WordsFrom(_, _)
WordsFrom(s, i) ==
    LET a == SkipChars(s, Whitespace, i)
        b == FindChar(s, Whitespace, a)
    IN  IF a > Len(s) THEN <<>>
        ELSE <<Slice(s, a, b - 1)>> \o WordsFrom(s, b)
split_whitespace(s) == WordsFrom(s, 1)
take(xs, n) == IF Len(xs) <= n THEN xs ELSE SubSeq(xs, 1, n)

\* str::lines().next().unwrap_or(""): the text before the first "\n", without
\* the "\r" of a "\r\n" ending
first_line(s) ==
    LET j == FindChar(s, {"\n"}, 1)
        l == Slice(s, 1, j - 1)
    IN  IF j <= Len(s) /\ Len(l) > 0 /\ l[Len(l)] = "\r"
        THEN Slice(l, 1, Len(l) - 1)
        ELSE l

\* Try to detect location from text
Cities ==
    <<<<"S","a","n"," ","F","r","a","n","c","i","s","c","o">>, <<"N","e","w"," ","Y","o","r","k">>, <<"S","e","a","t","t","l","e">>, <<"A","u","s","t","i","n">>, <<"B","o","s","t","o","n">>,
      <<"C","h","i","c","a","g","o">>, <<"L","o","s"," ","A","n","g","e","l","e","s">>, <<"D","e","n","v","e","r">>, <<"P","o","r","t","l","a","n","d">>, <<"M","i","a","m","i">>,
      <<"L","o","n","d","o","n">>, <<"B","e","r","l","i","n">>, <<"A","m","s","t","e","r","d","a","m">>, <<"P","a","r","i","s">>, <<"T","o","r","o","n","t","o">>>>
\* detect_location with the ONSITE test made before the REMOTE test
detect_location_onsite_first(text) ==
    LET text_upper == to_uppercase(text)
        found == {c \in 1..Len(Cities) : Contains(text, Cities[c])}
    IN  IF Contains(text_upper, <<"O","N","S","I","T","E">>) \/ Contains(text_upper, <<"O","N","-","S","I","T","E">>)
        THEN IF found # {} THEN Cities[Least(found)] \o <<" ","(","O","n","s","i","t","e",")">> ELSE <<"O","n","s","i","t","e">>
        ELSE IF Contains(text_upper, <<"R","E","M","O","T","E">>)
        THEN IF Contains(text_upper, <<"U","S">>) \/ Contains(text_upper, <<"U","S","A">>)
             THEN <<"R","e","m","o","t","e"," ","(","U","S",")">>
             ELSE IF Contains(text_upper, <<"E","U">>) \/ Contains(text_upper, <<"E","U","R","O","P","E">>)
             THEN <<"R","e","m","o","t","e"," ","(","E","U",")">>
             ELSE <<"R","e","m","o","t","e">>
        ELSE <<"U","n","k","n","o","w","n">>
detect_location(text) ==
    LET text_upper == to_uppercase(text)
        found == {c \in 1..Len(Cities) : Contains(text, Cities[c])}
    IN  IF Contains(text_upper, <<"R","E","M","O","T","E">>)
        THEN IF Contains(text_upper, <<"U","S">>) \/ Contains(text_upper, <<"U","S","A">>)
             THEN <<"R","e","m","o","t","e"," ","(","U","S",")">>
             ELSE IF Contains(text_upper, <<"E","U">>) \/ Contains(text_upper, <<"E","U","R","O","P","E">>)
             THEN <<"R","e","m","o","t","e"," ","(","E","U",")">>
             ELSE <<"R","e","m","o","t","e">>
        ELSE IF Contains(text_upper, <<"O","N","S","I","T","E">>) \/ Contains(text_upper, <<"O","N","-","S","I","T","E">>)
        THEN IF found # {} THEN Cities[Least(found)] \o <<" ","(","O","n","s","i","t","e",")">> ELSE <<"O","n","s","i","t","e">>
        ELSE <<"U","n","k","n","o","w","n">>

\* Regex ^(.+?)\s+(?:is hiring|hiring|looking for|seeks?)\s+(.+) on one line.
\* With p characters in group 1: the whitespace run after them, one of the
\* phrases, whitespace again and at least one more character; the second \s+
\* gives its last character to group 2 when the run reaches the end of the line.
HiringPhrases == <<<<"i","s"," ","h","i","r","i","n","g">>, <<"h","i","r","i","n","g">>, <<"l","o","o","k","i","n","g"," ","f","o","r">>, <<"s","e","e","k","s">>, <<"s","e","e","k">>>>
HiringTitleStart(line, e) ==
    LET r == SkipChars(line, Whitespace, e)
    IN  IF r > e /\ r <= Len(line) THEN r
        ELSE IF r > Len(line) /\ r - e >= 2 THEN Len(line)
        ELSE 0
HiringWith(line, p) ==
    LET w == SkipChars(line, Whitespace, p + 1)
        K == {k \in 1..Len(HiringPhrases) :
                /\ MatchAt(line, HiringPhrases[k], w)
                /\ HiringTitleStart(line, w + Len(HiringPhrases[k])) > 0}
    IN  IF w > p + 1 /\ K # {}
        THEN Some([company |-> SubSeq(line, 1, p),
                   title |-> SubSeq(line,
                       HiringTitleStart(line, w + Len(HiringPhrases[Least(K)])),
                       Len(line))])
        ELSE None
\* the lazy (.+?) takes the fewest characters from which the rest matches
hiring_re_captures(line) ==
    LET P == {p \in 1..Len(line) : IsSome(HiringWith(line, p))}
    IN  IF P = {} THEN None ELSE HiringWith(line, Least(P))

\* parse_first_line with the hiring pattern tried before the pipe split
parse_first_line_hiring_first(line) ==
    LET parts == [i \in 1..Len(split(line, "|")) |-> trim(split(line, "|")[i])]
        caps == hiring_re_captures(line)
        words == join(take(split_whitespace(line), 5), <<" ">>)
    IN  IF IsSome(caps)
        THEN <<caps[1].company, caps[1].title, detect_location(line)>>
        ELSE IF Len(parts) >= 2
        THEN <<parts[1], parts[2],
               IF Len(parts) >= 3 THEN join(SubSeq(parts, 3, Len(parts)), <<" ","|"," ">>)
               ELSE <<"U","n","k","n","o","w","n">>>>
        ELSE <<IF words = <<>> THEN <<"U","n","k","n","o","w","n">> ELSE words,
               <<"S","o","f","t","w","a","r","e"," ","E","n","g","i","n","e","e","r">>, detect_location(line)>>
\* Parse the first line of an HN job post: <<company, title, location>>
parse_first_line(line) ==
    LET parts == [i \in 1..Len(split(line, "|")) |-> trim(split(line, "|")[i])]
        caps == hiring_re_captures(line)
        words == join(take(split_whitespace(line), 5), <<" ">>)
    IN  IF Len(parts) >= 2
        THEN <<parts[1], parts[2],
               IF Len(parts) >= 3 THEN join(SubSeq(parts, 3, Len(parts)), <<" ","|"," ">>)
               ELSE <<"U","n","k","n","o","w","n">>>>
        ELSE IF IsSome(caps)
        THEN <<caps[1].company, caps[1].title, detect_location(line)>>
        ELSE <<IF words = <<>> THEN <<"U","n","k","n","o","w","n">> ELSE words,
               <<"S","o","f","t","w","a","r","e"," ","E","n","g","i","n","e","e","r">>, detect_location(line)>>

\* Extract technology keywords from job description
Techs ==
    <<<<"P","y","t","h","o","n">>, <<"J","a","v","a","S","c","r","i","p","t">>, <<"T","y","p","e","S","c","r","i","p","t">>, <<"R","u","s","t">>, <<"G","o">>, <<"J","a","v","a">>, <<"C","+","+">>, <<"C","#">>,
      <<"R","u","b","y">>, <<"P","H","P">>, <<"S","c","a","l","a">>, <<"K","o","t","l","i","n">>, <<"S","w","i","f","t">>, <<"R","e","a","c","t">>, <<"V","u","e">>, <<"A","n","g","u","l","a","r">>,
      <<"N","o","d","e",".","j","s">>, <<"D","j","a","n","g","o">>, <<"F","l","a","s","k">>, <<"R","a","i","l","s">>, <<"S","p","r","i","n","g">>, <<"F","a","s","t","A","P","I">>,
      <<"P","o","s","t","g","r","e","S","Q","L">>, <<"M","y","S","Q","L">>, <<"M","o","n","g","o","D","B">>, <<"R","e","d","i","s">>, <<"E","l","a","s","t","i","c","s","e","a","r","c","h">>,
      <<"D","o","c","k","e","r">>, <<"K","u","b","e","r","n","e","t","e","s">>, <<"A","W","S">>, <<"G","C","P">>, <<"A","z","u","r","e">>, <<"T","e","r","r","a","f","o","r","m">>,
      <<"G","r","a","p","h","Q","L">>, <<"R","E","S","T">>, <<"g","R","P","C">>, <<"K","a","f","k","a">>, <<"R","a","b","b","i","t","M","Q">>,
      <<"M","a","c","h","i","n","e"," ","L","e","a","r","n","i","n","g">>, <<"M","L">>, <<"A","I">>, <<"D","e","e","p"," ","L","e","a","r","n","i","n","g">>, <<"N","L","P">>,
      <<"i","O","S">>, <<"A","n","d","r","o","i","d">>, <<"R","e","a","c","t"," ","N","a","t","i","v","e">>, <<"F","l","u","t","t","e","r">>>>
\* extract_technologies with the text and the entries compared as they are written
extract_technologies_cased(text) ==
    SelectSeq(Techs, LAMBDA tech : Contains(text, tech))
extract_technologies(text) ==
    LET text_lower == to_lowercase(text)
    IN  SelectSeq(Techs, LAMBDA tech : Contains(text_lower, to_lowercase(tech)))

(***************************************************************************)
(* The environment: time and upstream payloads.                            *)
(***************************************************************************)
\* Utc.timestamp_opt(secs, 0).single()
timestamp_opt(secs) ==
    IF -TimestampLimit <= secs /\ secs <= TimestampLimit THEN Some(secs) ELSE None

\* days from 1970-01-01 to the civil date y-m-d
DaysFromCivil(y, m, d) ==
    LET yy == IF m <= 2 THEN y - 1 ELSE y
        era == yy \div 400
        yoe == yy - era * 400
        doy == (153 * (IF m > 2 THEN m - 3 ELSE m + 9) + 2) \div 5 + d - 1
        doe == yoe * 365 + yoe \div 4 - yoe \div 100 + doy
    IN  era * 146097 + doe - 719468
DaysInMonth(y, m) ==
    IF m = 2 THEN (IF y % 4 = 0 /\ (y % 100 # 0 \/ y % 400 = 0) THEN 29 ELSE 28)
    ELSE IF m \in {4, 6, 9, 11} THEN 30 ELSE 31
AllDigits(s, i, j) == j <= Len(s) /\ \A k \in i..j : s[k] \in Digits
\* DateTime::parse_from_rfc3339(s).map(|dt| dt.with_timezone(&Utc)): None, or Some
\* of the instant in seconds (the fraction of a second is dropped)
parse_from_rfc3339(s) ==
    LET f == IF Len(s) >= 20 /\ s[20] = "." THEN SkipChars(s, Digits, 21) ELSE 20
        y == DecimalValue(SubSeq(s, 1, 4))
        mo == DecimalValue(SubSeq(s, 6, 7))
        d == DecimalValue(SubSeq(s, 9, 10))
        h == DecimalValue(SubSeq(s, 12, 13))
        mi == DecimalValue(SubSeq(s, 15, 16))
        sec == DecimalValue(SubSeq(s, 18, 19))
        zulu == Len(s) = f /\ s[f] \in {"Z", "z"}
        numeric == /\ Len(s) = f + 5
                   /\ s[f] \in {"+", "-"}
                   /\ AllDigits(s, f + 1, f + 2)
                   /\ s[f + 3] = ":"
                   /\ AllDigits(s, f + 4, f + 5)
                   /\ DecimalValue(SubSeq(s, f + 1, f + 2)) <= 23
                   /\ DecimalValue(SubSeq(s, f + 4, f + 5)) <= 59
        offset == IF zulu THEN 0
                  ELSE (IF s[f] = "-" THEN -1 ELSE 1)
                       * (DecimalValue(SubSeq(s, f + 1, f + 2)) * 3600
                          + DecimalValue(SubSeq(s, f + 4, f + 5)) * 60)
    IN  IF /\ Len(s) >= 20
           /\ AllDigits(s, 1, 4) /\ s[5] = "-" /\ AllDigits(s, 6, 7) /\ s[8] = "-"
           /\ AllDigits(s, 9, 10) /\ s[11] \in {"T", "t", " "}
           /\ AllDigits(s, 12, 13) /\ s[14] = ":" /\ AllDigits(s, 15, 16)
           /\ s[17] = ":" /\ AllDigits(s, 18, 19)
           /\ (f = 20 \/ f > 21)
           /\ (zulu \/ numeric)
           /\ mo \in 1..12 /\ d \in 1..DaysInMonth(y, mo)
           /\ h <= 23 /\ mi <= 59 /\ sec <= 59
        THEN Some(DaysFromCivil(y, mo, d) * 86400 + h * 3600 + mi * 60 + sec - offset)
        ELSE None

\* u64::to_string
RECURSIVE ToDecimal(_)
ToDecimal(n) ==
    IF n < 10 THEN <<<<"0","1","2","3","4","5","6","7","8","9">>[n + 1]>>
    ELSE ToDecimal(n \div 10) \o <<<<"0","1","2","3","4","5","6","7","8","9">>[(n % 10) + 1]>>

\* JobSource::Other(name)
Other(name) == [variant |-> "Other", name |-> name]

\* Result<T>
Ok(v) == [ok |-> TRUE, value |-> v]
Err(e) == [ok |-> FALSE, error |-> e]

\* the sequences over S of length at most n
SeqsUpTo(S, n) == UNION {[1..k -> S] : k \in 0..n}

(***************************************************************************)
(* Mapping of upstream records to Jobs.  uuid is the value of              *)
(* Uuid::new_v4() and now the reading of Utc::now().                       *)
(***************************************************************************)
\* remotive.rs
convert_remotive_job(rj, uuid, now) ==
        [id |-> uuid,
         title |-> rj.title,
         company |-> rj.company_name,
         location |-> IF rj.candidate_required_location = <<>>
                      THEN <<"R","e","m","o","t","e">>
                      ELSE <<"R","e","m","o","t","e"," ","-"," ">> \o rj.candidate_required_location,
         description |-> remotive_clean_html(rj.description),
         requirements |-> rj.tags,
         salary_range |-> IF IsSome(rj.salary) THEN parse_salary(rj.salary[1]) ELSE None,
         source |-> Other(<<"R","e","m","o","t","i","v","e">>),
         source_url |-> rj.url,
         posted_date |-> unwrap_or(parse_from_rfc3339(rj.publication_date), now),
         scraped_at |-> now]

\* arbeitnow.rs
convert_arbeitnow_job(aj, uuid, now) ==
        [id |-> uuid,
         title |-> aj.title,
         company |-> aj.company_name,
         location |-> IF aj.remote THEN aj.location \o <<" ","(","R","e","m","o","t","e",")">> ELSE aj.location,
         description |-> arbeitnow_clean_html(aj.description),
         requirements |-> aj.tags \o aj.job_types,
         salary_range |-> None,
         source |-> Other(<<"A","r","b","e","i","t","n","o","w">>),
         source_url |-> aj.url,
         posted_date |-> unwrap_or(timestamp_opt(aj.created_at), now),
         scraped_at |-> now]

\* parse_hn_job_posting, lines 190-210: what is derived from clean_text
hn_fields_of(clean_text) ==
    [description |-> clean_text,
     header |-> parse_first_line(first_line(clean_text)),
     requirements |-> extract_technologies(clean_text)]
\* parse_hn_job_posting, lines 183-210: what is derived from the text alone
hn_text_fields(text) == hn_fields_of(clean_hn_html(text))
\* hn_text_fields of the texts of HNCatalogue, computed once
HNTextFields ==
    {<<HNCatalogue[k].text[1], hn_text_fields(HNCatalogue[k].text[1])>> :
        k \in {j \in DOMAIN HNCatalogue : IsSome(HNCatalogue[j].text)}}
\* the value table holds for key, or default if it holds none
Lookup(table, key, default) ==
    IF \E p \in table : p[1] = key
    THEN (CHOOSE p \in table : p[1] = key)[2]
    ELSE default

\* parse_hn_job_posting, lines 196-216, with the url built from the fresh Uuid
hn_job_url_by_uuid(f, item, uuid, now) ==
    [id |-> uuid,
     title |-> f.header[2],
     company |-> f.header[1],
     location |-> f.header[3],
     description |-> f.description,
     requirements |-> f.requirements,
     salary_range |-> None,
     source |-> Other(<<"H","N"," ","W","h","o","'","s"," ","H","i","r","i","n","g">>),
     source_url |-> <<"h","t","t","p","s",":","/","/","n","e","w","s",".","y","c","o","m","b","i","n","a","t","o","r",".","c","o","m","/","i","t","e","m","?","i","d","=">> \o ToDecimal(uuid),
     posted_date |-> unwrap_or(IF IsSome(item.time) THEN timestamp_opt(item.time[1])
                               ELSE None, now),
     scraped_at |-> now]
\* parse_hn_job_posting, lines 196-216: the Job of an item, f its text fields
hn_job(f, item, uuid, now) ==
    [id |-> uuid,
     title |-> f.header[2],
     company |-> f.header[1],
     location |-> f.header[3],
     description |-> f.description,
     requirements |-> f.requirements,
     salary_range |-> None,
     source |-> Other(<<"H","N"," ","W","h","o","'","s"," ","H","i","r","i","n","g">>),
     source_url |-> <<"h","t","t","p","s",":","/","/","n","e","w","s",".","y","c","o","m","b","i","n","a","t","o","r",".","c","o","m","/","i","t","e","m","?","i","d","=">> \o ToDecimal(item.id),
     posted_date |-> unwrap_or(IF IsSome(item.time) THEN timestamp_opt(item.time[1])
                               ELSE None, now),
     scraped_at |-> now]
\* hn_who_is_hiring.rs: None for an item without text
parse_hn_job_posting(item, uuid, now) ==
    IF ~IsSome(item.text) THEN None
    ELSE Some(hn_job(Lookup(HNTextFields, item.text[1], hn_text_fields(item.text[1])),
                     item, uuid, now))

AggIdle ==
    /\ aggPc = "idle" /\ aggArgs = None /\ aggIdx = 0 /\ all_jobs = <<>>
    /\ aggResult = None /\ warnings = <<>> /\ infos = <<>> /\ calls = <<>>
    /\ returned = <<>>
HnIdle ==
    /\ hnPc = "idle" /\ hnArgs = None /\ hnSubmitted = <<>> /\ hnScanPos = 0
    /\ hnThreadId = None /\ hnCommentIds = <<>> /\ hnChunkStart = 0
    /\ hnFetch = <<>> /\ hnJobs = <<>> /\ hnError = None /\ hnFailed = {}
NoWorld == [remotive |-> 0, arbeitnow |-> 0, submitted |-> 0, kids |-> 0, kinds |-> 0,
            items |-> <<>>]
NoUpstream == [thread |-> None, arbeitnow |-> None]
EnvIdle == nextId = 1 /\ clock = 100 /\ world = NoWorld /\ upstream = NoUpstream
CleanIdle == cleaner = "none" /\ passes = 0 /\ prev = <<>> /\ cur = <<>>
SalaryIdle == salIn = <<>> /\ salOut = None /\ salDone = FALSE


CallIdle == fn = "none" /\ fnIn = <<>> /\ fnOut = <<>>
RepoIdle == dbRows = <<>> /\ upCalls = <<>>
(***************************************************************************)
(* Upstream payloads: the records each API can answer with.                *)
(***************************************************************************)
\* Remotive: the fields of RemotiveJob that convert_remotive_job reads
RemotiveCatalogue ==
    <<[url |-> <<"h","t","t","p","s",":","/","/","r","e","m","o","t","i","v","e",".","c","o","m","/","j","/","1">>, title |-> <<"R","u","s","t"," ","D","e","v">>,
       company_name |-> <<"A","c","m","e">>, tags |-> <<<<"r","u","s","t">>, <<"a","w","s">>>>,
       publication_date |-> <<"2","0","2","4","-","0","1","-","1","5","T","1","0",":","3","0",":","0","0","+","0","1",":","0","0">>,
       candidate_required_location |-> <<"U","S","A">>,
       salary |-> Some(<<"$","5","0","k","-","$","8","0","k">>),
       description |-> <<"<","p",">","B","u","i","l","d"," ","&","a","m","p",";"," ","s","h","i","p","<","/","p",">","<","l","i",">","R","u","s","t","<","/","l","i",">">>],
      [url |-> <<>>, title |-> <<"G","o"," ","E","n","g","i","n","e","e","r">>,
       company_name |-> <<"B","e","t","a">>, tags |-> <<>>,
       publication_date |-> <<"2","0","2","4","-","0","1","-","1","5","T","1","0",":","3","0",":","0","0">>,
       candidate_required_location |-> <<>>,
       salary |-> Some(<<"c","o","m","p","e","t","i","t","i","v","e">>),
       description |-> <<"G","o","<","b","r",">","S","Q","L">>]>>

\* Arbeitnow: the fields of ArbeitnowJob that fetch_jobs and convert_arbeitnow_job read
ArbeitnowCatalogue ==
    <<[company_name |-> <<"G","a","m","m","a">>, title |-> <<"G","o"," ","E","n","g","i","n","e","e","r">>,
       description |-> <<"<","h","2",">","R","o","l","e","<","/","h","2",">","A","P","I","s"," ","&","a","m","p",";"," ","S","Q","L">>, remote |-> TRUE,
       url |-> <<"h","t","t","p","s",":","/","/","a","r","b","e","i","t","n","o","w",".","c","o","m","/","v","/","1">>, tags |-> <<<<"g","o","l","a","n","g">>>>,
       job_types |-> <<<<"f","u","l","l","-","t","i","m","e">>>>, location |-> <<"B","e","r","l","i","n">>, created_at |-> 5],
      [company_name |-> <<"D","e","l","t","a">>, title |-> <<"D","e","s","i","g","n","e","r">>,
       description |-> <<"F","i","g","m","a">>, remote |-> FALSE,
       url |-> <<>>, tags |-> <<<<"u","x">>>>,
       job_types |-> <<>>, location |-> <<"R","e","m","o","t","e"," ","C","i","t","y">>,
       created_at |-> TimestampLimit + 1]>>

\* the ids base + 1 .. base + n, in this order
IdsFrom(base, n) == [i \in 1..n |-> base + i]

\* the arguments fetch_all is called with
Keywords == {None, Some(<<"G","O">>)}
Locations == {None, Some(<<"R","e","m","o","t","e">>), Some(<<"B","e","r","l","i","n">>)}
Limits(n) == {None} \cup {Some(k) : k \in 0..n}

(***************************************************************************)
(* The adapters' fetch_jobs.  resp is what the upstream answered: Ok of    *)
(* a payload, or Err of the transport or deserialization error.            *)
(***************************************************************************)
\* remotive.rs fetch_jobs: the query pairs of the request
remotive_query(keywords, limit) ==
    (IF IsSome(keywords) THEN <<[key |-> "search", value |-> keywords[1]]>> ELSE <<>>)
    \o (IF IsSome(limit) THEN <<[key |-> "limit", value |-> ToDecimal(limit[1])]>> ELSE <<>>)

remotive_fetch_jobs(keywords, location, limit, resp, uuid, now) ==
    IF ~resp.ok THEN Err(resp.error)
    ELSE Ok([i \in 1..Len(resp.value) |->
                convert_remotive_job(resp.value[i], uuid + i - 1, now)])

\* arbeitnow.rs fetch_jobs
ArbeitnowDefaultLimit == 50
arbeitnow_matches(aj, keywords, location) ==
    LET kw_lower == to_lowercase(keywords[1])
        loc_lower == to_lowercase(location[1])
        matches_keywords ==
            IF IsSome(keywords)
            THEN \/ Contains(to_lowercase(aj.title), kw_lower)
                 \/ Contains(to_lowercase(aj.description), kw_lower)
                 \/ Contains(to_lowercase(aj.company_name), kw_lower)
                 \/ \E t \in 1..Len(aj.tags) : Contains(to_lowercase(aj.tags[t]), kw_lower)
            ELSE TRUE
        matches_location ==
            IF IsSome(location)
            THEN \/ Contains(to_lowercase(aj.location), loc_lower)
                 \/ (loc_lower = <<"r","e","m","o","t","e">> /\ aj.remote)
            ELSE TRUE
    IN  matches_keywords /\ matches_location
\* arbeitnow.rs fetch_jobs, lines 76-101, with take(limit) before the filter
arbeitnow_take_then_filter(keywords, location, limit, resp, uuid, now) ==
    IF ~resp.ok THEN Err(resp.error)
    ELSE LET lim == IF IsSome(limit) THEN limit[1] ELSE ArbeitnowDefaultLimit
             kept == SelectSeq(take(resp.value, lim),
                               LAMBDA aj : arbeitnow_matches(aj, keywords, location))
         IN  Ok([i \in 1..Len(kept) |-> convert_arbeitnow_job(kept[i], uuid + i - 1, now)])
arbeitnow_fetch_jobs(keywords, location, limit, resp, uuid, now) ==
    IF ~resp.ok THEN Err(resp.error)
    ELSE LET lim == IF IsSome(limit) THEN limit[1] ELSE ArbeitnowDefaultLimit
             kept == take(SelectSeq(resp.value,
                                    LAMBDA aj : arbeitnow_matches(aj, keywords, location)),
                          lim)
         IN  Ok([i \in 1..Len(kept) |-> convert_arbeitnow_job(kept[i], uuid + i - 1, now)])

\* hn_who_is_hiring.rs fetch_jobs, lines 141-158: the filters on a parsed job
hn_matches(job, keywords, location) ==
    LET kw_lower == to_lowercase(keywords[1])
        loc_lower == to_lowercase(location[1])
        matches_keywords ==
            IF IsSome(keywords)
            THEN \/ Contains(to_lowercase(job.title), kw_lower)
                 \/ Contains(to_lowercase(job.description), kw_lower)
                 \/ Contains(to_lowercase(job.company), kw_lower)
            ELSE TRUE
        matches_location ==
            IF IsSome(location)
            THEN \/ Contains(to_lowercase(job.location), loc_lower)
                 \/ (loc_lower = <<"r","e","m","o","t","e">>
                     /\ Contains(to_lowercase(job.location), <<"r","e","m","o","t","e">>))
            ELSE TRUE
    IN  matches_keywords /\ matches_location

\* hn_who_is_hiring.rs fetch_jobs, lines 131-166: the results of one chunk, in
\* the order of the chunk; [jobs, uuid] after them.  results[k] is Err, or Ok of
\* the item fetched.
HNDefaultLimit == 100
HNChunkSize == 10
HNScanWindow == 10
\* fetch_jobs, lines 140-159: a parsed job is pushed if it passes the filters
hn_filter(job, jobs, keywords, location, uuid) ==
    IF ~IsSome(job) THEN [jobs |-> jobs, uuid |-> uuid]
    ELSE IF hn_matches(job[1], keywords, location)
    THEN [jobs |-> Append(jobs, job[1]), uuid |-> uuid + 1]
    ELSE [jobs |-> jobs, uuid |-> uuid + 1]
\* fetch_jobs, lines 132-161, without the test of item.dead
hn_accept_ignoring_dead(result, jobs, keywords, location, uuid, now) ==
    IF \/ ~result.ok
       \/ (IsSome(result.value.deleted) /\ result.value.deleted[1])
       \/ ~IsSome(result.value.text)
    THEN [jobs |-> jobs, uuid |-> uuid]
    ELSE hn_filter(parse_hn_job_posting(result.value, uuid, now), jobs, keywords,
                   location, uuid)
\* fetch_jobs, lines 132-161: one result of the chunk
hn_accept(result, jobs, keywords, location, uuid, now) ==
    IF \/ ~result.ok
       \/ (IsSome(result.value.deleted) /\ result.value.deleted[1])
       \/ (IsSome(result.value.dead) /\ result.value.dead[1])
       \/ ~IsSome(result.value.text)
    THEN [jobs |-> jobs, uuid |-> uuid]
    ELSE hn_filter(parse_hn_job_posting(result.value, uuid, now), jobs, keywords,
                   location, uuid)
RECURSIVE hn_process_results(_, _, _, _, _, _, _, _)
\* fetch_jobs, lines 163-165: after a result, break if the limit is reached
hn_after(a, results, k, keywords, location, limit, now) ==
    IF Len(a.jobs) >= limit THEN a
    ELSE hn_process_results(results, k + 1, a.jobs, keywords, location, limit, a.uuid, now)
hn_process_results(results, k, jobs, keywords, location, limit, uuid, now) ==
    IF k > Len(results) THEN [jobs |-> jobs, uuid |-> uuid]
    ELSE hn_after(hn_accept(results[k], jobs, keywords, location, uuid, now),
                  results, k, keywords, location, limit, now)
(***************************************************************************)
(* JobAggregator::fetch_all over its three sources.  Remotive and          *)
(* Arbeitnow answer in one step; the HN adapter runs as the state machine  *)
(* ResolveRoot -> FetchChildIds -> ProcessBatch -> Done.                   *)
(***************************************************************************)
\* JobAggregator::new: source_name() of the sources, in registration order
Sources == <<<<"R","e","m","o","t","i","v","e">>, <<"H","N"," ","W","h","o","'","s"," ","H","i","r","i","n","g">>, <<"A","r","b","e","i","t","n","o","w">>>>

\* what the upstreams can answer
RemotiveResponses ==
    {Err("Failed to fetch from Remotive API")}
    \cup {Ok([i \in DOMAIN l |-> RemotiveCatalogue[l[i]]]) :
            l \in SeqsUpTo(DOMAIN RemotiveCatalogue, world.remotive)}
ArbeitnowResponses ==
    {Err("Failed to fetch from Arbeitnow API")}
    \cup {Ok([i \in DOMAIN l |-> ArbeitnowCatalogue[l[i]]]) :
            l \in SeqsUpTo(DOMAIN ArbeitnowCatalogue, world.arbeitnow)}
HNUserResponses ==
    {Err("Failed to fetch whoishiring user")}
    \cup {Ok(IdsFrom(100, n)) : n \in 0..world.submitted}
HNCandidateResponses ==
    {Err("Failed to fetch HN item")} \cup {Ok([title |-> HNTitles[t]]) : t \in DOMAIN HNTitles}
HNRootResponses ==
    {Err("Failed to fetch HN item")}
    \cup {Ok([kids |-> IdsFrom(40, n)]) : n \in 0..world.kids}
HNChildResponses ==
    {[st |-> "err"]} \cup {[st |-> "ok", kind |-> k] : k \in 1..world.kinds}

\* fetch_all is called
FetchAll(keywords, location, limit_per_source) ==
    /\ aggPc = "idle"
    /\ aggPc' = "calling"
    /\ aggArgs' = Some([keywords |-> keywords, location |-> location,
                        limit |-> limit_per_source])
    /\ aggIdx' = 1
    /\ all_jobs' = <<>>
    /\ UNCHANGED <<aggResult, warnings, infos, calls, returned, hnVars, envVars,
                   cleanVars, salVars,
                   callVars, repoVars>>

\* the arguments source.fetch_jobs is called with
CallArgsNoLimit(i) ==
    [source |-> Sources[i], keywords |-> aggArgs[1].keywords,
     location |-> aggArgs[1].location, limit |-> None]
CallArgs(i) ==
    [source |-> Sources[i], keywords |-> aggArgs[1].keywords,
     location |-> aggArgs[1].location, limit |-> aggArgs[1].limit]

\* fetch_all, lines 61-69, with `?` in place of the match: the error is returned
AggHandlePropagating(r) ==
    /\ returned' = Append(returned, r)
    /\ IF r.ok
       THEN /\ infos' = Append(infos, [source |-> Sources[aggIdx], count |-> Len(r.value)])
            /\ all_jobs' = all_jobs \o r.value
            /\ aggIdx' = aggIdx + 1
            /\ UNCHANGED <<warnings, aggPc, aggResult>>
       ELSE /\ aggPc' = "returned"
            /\ aggResult' = Some(Err(r.error))
            /\ UNCHANGED <<warnings, infos, all_jobs, aggIdx>>
\* fetch_all, lines 61-69, with the jobs put in front of the running result
AggHandlePrepending(r) ==
    /\ returned' = Append(returned, r)
    /\ aggIdx' = aggIdx + 1
    /\ IF r.ok
       THEN /\ infos' = Append(infos, [source |-> Sources[aggIdx], count |-> Len(r.value)])
            /\ all_jobs' = r.value \o all_jobs
            /\ UNCHANGED warnings
       ELSE /\ warnings' = Append(warnings, [source |-> Sources[aggIdx], error |-> r.error])
            /\ UNCHANGED <<infos, all_jobs>>
    /\ UNCHANGED <<aggPc, aggResult>>
\* fetch_all, lines 61-69: the match on what fetch_jobs returned
AggHandle(r) ==
    /\ returned' = Append(returned, r)
    /\ aggIdx' = aggIdx + 1
    /\ IF r.ok
       THEN /\ infos' = Append(infos, [source |-> Sources[aggIdx], count |-> Len(r.value)])
            /\ all_jobs' = all_jobs \o r.value
            /\ UNCHANGED warnings
       ELSE /\ warnings' = Append(warnings, [source |-> Sources[aggIdx], error |-> r.error])
            /\ UNCHANGED <<infos, all_jobs>>
    /\ UNCHANGED <<aggPc, aggResult>>

\* the number of Uuids and the reading of the clock an adapter call used
Used(r) ==
    /\ nextId' = nextId + (IF r.ok THEN Len(r.value) ELSE 0)
    /\ clock' = clock + 1
    /\ UNCHANGED world
\* fetch_jobs returned r within the step
AdapterReturned(r) == AggHandle(r) /\ Used(r)

\* sources[0].fetch_jobs(..).await and the match on its result
InvokeRemotive ==
    /\ aggPc = "calling"
    /\ aggIdx = 1
    /\ \E resp \in RemotiveResponses :
          AdapterReturned(remotive_fetch_jobs(CallArgs(1).keywords, CallArgs(1).location,
                                              CallArgs(1).limit, resp, nextId, clock))
    /\ calls' = Append(calls, CallArgs(1))
    /\ UNCHANGED upstream
    /\ UNCHANGED <<aggArgs, hnVars, cleanVars, salVars,
                   callVars, repoVars>>

\* sources[2].fetch_jobs(..).await and the match on its result
InvokeArbeitnow ==
    /\ aggPc = "calling"
    /\ aggIdx = 3
    /\ \E resp \in ArbeitnowResponses :
          /\ AdapterReturned(arbeitnow_fetch_jobs(CallArgs(3).keywords, CallArgs(3).location,
                                                  CallArgs(3).limit, resp, nextId, clock))
          /\ upstream' = [upstream EXCEPT !.arbeitnow = Some(resp)]
    /\ calls' = Append(calls, CallArgs(3))
    /\ UNCHANGED <<aggArgs, hnVars, cleanVars, salVars,
                   callVars, repoVars>>

\* Ok(all_jobs)
Return ==
    /\ aggPc = "calling"
    /\ aggIdx = Len(Sources) + 1
    /\ aggPc' = "returned"
    /\ aggResult' = Some(Ok(all_jobs))
    /\ UNCHANGED <<aggArgs, aggIdx, all_jobs, warnings, infos, calls, returned,
                   hnVars, envVars, cleanVars, salVars,
                   callVars, repoVars>>

(***************************************************************************)
(* HNWhoIsHiringSource::fetch_jobs                                         *)
(***************************************************************************)
\* sources[1].fetch_jobs(..) is called
InvokeHN ==
    /\ aggPc = "calling"
    /\ aggIdx = 2
    /\ hnPc = "idle"
    /\ hnPc' = "ResolveRoot"
    /\ hnArgs' = Some([keywords |-> CallArgs(2).keywords, location |-> CallArgs(2).location,
                       limit |-> CallArgs(2).limit])
    /\ calls' = Append(calls, CallArgs(2))
    /\ UNCHANGED <<aggPc, aggArgs, aggIdx, all_jobs, aggResult, warnings, infos, returned,
                   hnSubmitted, hnScanPos, hnThreadId, hnCommentIds, hnChunkStart,
                   hnFetch, hnJobs, hnError, hnFailed, envVars, cleanVars, salVars,
                   callVars, repoVars>>

\* let limit = limit.unwrap_or(100)
HNLimit == IF IsSome(hnArgs[1].limit) THEN hnArgs[1].limit[1] ELSE HNDefaultLimit

\* fetch_jobs returns Err(e): `?` on get_latest_hiring_thread_id or on get_item
HNFail(e) ==
    /\ hnPc' = "Error"
    /\ hnError' = Some(e)
    /\ hnSubmitted' = <<>>
    /\ hnScanPos' = 0
    /\ UNCHANGED <<hnThreadId, hnCommentIds, hnChunkStart, hnFetch, hnJobs>>

\* get_latest_hiring_thread_id returns Ok(id)
HNResolved(id) ==
    /\ hnPc' = "FetchChildIds"
    /\ hnThreadId' = Some(id)
    /\ hnSubmitted' = <<>>
    /\ hnScanPos' = 0
    /\ UNCHANGED <<hnCommentIds, hnChunkStart, hnFetch, hnJobs, hnError>>

\* get_latest_hiring_thread_id, lines 46-59, with user.submitted.last() as the fallback
HNScanOnFallbackLast(submitted, pos) ==
    IF pos < Len(submitted) /\ pos < HNScanWindow
    THEN /\ hnPc' = "Scan"
         /\ hnSubmitted' = submitted
         /\ hnScanPos' = pos
         /\ UNCHANGED <<hnThreadId, hnCommentIds, hnChunkStart, hnFetch, hnJobs, hnError>>
    ELSE IF Len(submitted) > 0
    THEN HNResolved(submitted[Len(submitted)])
    ELSE HNFail("No threads found")
\* get_latest_hiring_thread_id, lines 46-59, without take(10)
HNScanOnWholeList(submitted, pos) ==
    IF pos < Len(submitted)
    THEN /\ hnPc' = "Scan"
         /\ hnSubmitted' = submitted
         /\ hnScanPos' = pos
         /\ UNCHANGED <<hnThreadId, hnCommentIds, hnChunkStart, hnFetch, hnJobs, hnError>>
    ELSE IF Len(submitted) > 0
    THEN HNResolved(submitted[1])
    ELSE HNFail("No threads found")
\* get_latest_hiring_thread_id, lines 46-59, once pos submissions were examined
\* without a match: the next of the first 10, or the fallback
HNScanOn(submitted, pos) ==
    IF pos < Len(submitted) /\ pos < HNScanWindow
    THEN /\ hnPc' = "Scan"
         /\ hnSubmitted' = submitted
         /\ hnScanPos' = pos
         /\ UNCHANGED <<hnThreadId, hnCommentIds, hnChunkStart, hnFetch, hnJobs, hnError>>
    ELSE IF Len(submitted) > 0
    THEN HNResolved(submitted[1])
    ELSE HNFail("No threads found")

\* get_latest_hiring_thread_id, lines 34-44: the user request answered resp
HNUserFetched(resp) ==
    IF resp.ok
    THEN HNScanOn(resp.value, 0) /\ UNCHANGED hnFailed
    ELSE HNFail(resp.error) /\ hnFailed' = hnFailed \cup {"user"}
\* get_latest_hiring_thread_id, lines 34-44: the whoishiring user is fetched
HNFetchUser ==
    /\ hnPc = "ResolveRoot"
    /\ \E resp \in HNUserResponses : HNUserFetched(resp)
    /\ UNCHANGED <<aggVars, hnArgs, envVars, cleanVars, salVars,
                   callVars, repoVars>>

\* get_latest_hiring_thread_id, lines 47-53: get_item of the submission answered resp
HNItemScanned(resp) ==
    IF resp.ok
    THEN /\ IF IsSome(resp.value.title)
               /\ Contains(resp.value.title[1], <<"W","h","o"," ","i","s"," ","h","i","r","i","n","g","?">>)
            THEN HNResolved(hnSubmitted[hnScanPos + 1])
            ELSE HNScanOn(hnSubmitted, hnScanPos + 1)
         /\ UNCHANGED hnFailed
    ELSE /\ HNScanOn(hnSubmitted, hnScanPos + 1)
         /\ hnFailed' = hnFailed \cup {"candidate"}
\* get_latest_hiring_thread_id, lines 46-54: one submission of the first 10
HNScanItem ==
    /\ hnPc = "Scan"
    /\ \E resp \in HNCandidateResponses : HNItemScanned(resp)
    /\ UNCHANGED <<aggVars, hnArgs, envVars, cleanVars, salVars,
                   callVars, repoVars>>

\* fetch_jobs, lines 127-129, with one future per remaining id instead of chunks(10)
HNStartAll(ids, start) ==
    /\ hnPc' = "AwaitBatch"
    /\ hnChunkStart' = start
    /\ hnFetch' = [i \in 1..Len(ids) |->
                     IF i > start THEN [st |-> "inflight"] ELSE hnFetch[i]]
\* fetch_jobs, lines 127-129: the futures of the chunk after `start` are created
HNStartChunk(ids, start) ==
    /\ hnPc' = "AwaitBatch"
    /\ hnChunkStart' = start
    /\ hnFetch' = [i \in 1..Len(ids) |->
                     IF i > start /\ i <= start + HNChunkSize
                     THEN [st |-> "inflight"]
                     ELSE IF i <= start THEN hnFetch[i] ELSE [st |-> "none"]]

\* fetch_jobs, lines 114-129 with get_item's error taken for a thread without kids
HNFetchRootLenient ==
    /\ hnPc = "FetchChildIds"
    /\ \E resp \in HNRootResponses :
          LET kids == IF resp.ok THEN resp.value.kids ELSE <<>>
              comment_ids == take(kids, HNLimit * 2)
          IN  /\ upstream' = [upstream EXCEPT !.thread = Some(resp)]
              /\ hnFailed' = IF resp.ok THEN hnFailed ELSE hnFailed \cup {"root"}
              /\ hnCommentIds' = comment_ids
              /\ IF Len(comment_ids) > 0
                 THEN HNStartChunk(comment_ids, 0)
                 ELSE /\ hnPc' = "Done"
                      /\ UNCHANGED <<hnChunkStart, hnFetch>>
              /\ UNCHANGED <<hnSubmitted, hnScanPos, hnThreadId, hnJobs, hnError>>
    /\ UNCHANGED <<aggVars, hnArgs, nextId, clock, world, cleanVars, salVars,
                   callVars, repoVars>>
\* fetch_jobs, lines 114-129, with every kid of the thread taken as a candidate
HNFetchRootAllKids ==
    /\ hnPc = "FetchChildIds"
    /\ \E resp \in HNRootResponses :
       /\ upstream' = [upstream EXCEPT !.thread = Some(resp)]
       /\ IF resp.ok
          THEN LET comment_ids == resp.value.kids
               IN  /\ hnCommentIds' = comment_ids
                   /\ IF Len(comment_ids) > 0
                      THEN HNStartChunk(comment_ids, 0)
                      ELSE /\ hnPc' = "Done"
                           /\ UNCHANGED <<hnChunkStart, hnFetch>>
                   /\ UNCHANGED <<hnSubmitted, hnScanPos, hnThreadId, hnJobs, hnError,
                                  hnFailed>>
          ELSE HNFail(resp.error) /\ hnFailed' = hnFailed \cup {"root"}
    /\ UNCHANGED <<aggVars, hnArgs, nextId, clock, world, cleanVars, salVars,
                   callVars, repoVars>>
\* fetch_jobs, lines 114-129: the thread is fetched, comment_ids are its first
\* limit * 2 kids and the first chunk of get_item futures starts
HNFetchRoot ==
    /\ hnPc = "FetchChildIds"
    /\ \E resp \in HNRootResponses :
       /\ upstream' = [upstream EXCEPT !.thread = Some(resp)]
       /\ IF resp.ok
          THEN LET comment_ids == take(resp.value.kids, HNLimit * 2)
               IN  /\ hnCommentIds' = comment_ids
                   /\ IF Len(comment_ids) > 0
                      THEN HNStartChunk(comment_ids, 0)
                      ELSE /\ hnPc' = "Done"
                           /\ UNCHANGED <<hnChunkStart, hnFetch>>
                   /\ UNCHANGED <<hnSubmitted, hnScanPos, hnThreadId, hnJobs, hnError,
                                  hnFailed>>
          ELSE HNFail(resp.error) /\ hnFailed' = hnFailed \cup {"root"}
    /\ UNCHANGED <<aggVars, hnArgs, nextId, clock, world, cleanVars, salVars,
                   callVars, repoVars>>

\* the upstream answers get_item for the i-th kid with the item it stores, or
\* the request fails; a world without items leaves the stored item open
HNServes(i, resp) ==
    IF world.items = <<>> \/ resp.st = "err" THEN TRUE ELSE resp.kind = world.items[i]

\* the future of the i-th candidate completes with resp
HNChildCompleted(i, resp) ==
    /\ hnFetch[i].st = "inflight"
    /\ HNServes(i, resp)
    /\ hnFetch' = [hnFetch EXCEPT ![i] = resp]
\* get_item(id) of one future of the chunk completes
HNChildDone ==
    /\ hnPc = "AwaitBatch"
    /\ \E i \in DOMAIN hnFetch, resp \in HNChildResponses : HNChildCompleted(i, resp)
    /\ UNCHANGED <<aggVars, hnPc, hnArgs, hnSubmitted, hnScanPos, hnThreadId, hnCommentIds,
                   hnChunkStart, hnJobs, hnError, hnFailed, envVars, cleanVars, salVars,
                   callVars, repoVars>>

\* the HNItem a completed future holds
HNItemOf(i) ==
    LET c == HNCatalogue[hnFetch[i].kind]
    IN  [id |-> hnCommentIds[i], by |-> c.by, text |-> c.text, time |-> c.time,
         deleted |-> c.deleted, dead |-> c.dead]
\* join_all(futures).await: the results of the current chunk, in its order
HNChunkEnd == IF hnChunkStart + HNChunkSize < Len(hnCommentIds)
              THEN hnChunkStart + HNChunkSize ELSE Len(hnCommentIds)
\* join_all with the results of the chunk in the reverse of its order
HNResultsReversed ==
    [k \in 1..(HNChunkEnd - hnChunkStart) |->
        IF hnFetch[HNChunkEnd + 1 - k].st = "ok"
        THEN Ok(HNItemOf(HNChunkEnd + 1 - k))
        ELSE Err("Failed to fetch HN item")]
HNResults ==
    [k \in 1..(HNChunkEnd - hnChunkStart) |->
        IF hnFetch[hnChunkStart + k].st = "ok"
        THEN Ok(HNItemOf(hnChunkStart + k))
        ELSE Err("Failed to fetch HN item")]

\* fetch_jobs, lines 157-172, without the outer `if jobs.len() >= limit { break; }`
HNChunkProcessedNoStop(r) ==
    /\ hnJobs' = r.jobs
    /\ nextId' = r.uuid
    /\ IF HNChunkEnd = Len(hnCommentIds)
       THEN hnPc' = "Done" /\ UNCHANGED <<hnChunkStart, hnFetch>>
       ELSE HNStartChunk(hnCommentIds, HNChunkEnd)
    /\ UNCHANGED hnError
\* fetch_jobs, lines 157-172: r is [jobs, uuid] after the chunk; the next chunk
\* starts, or Ok(jobs) returns
HNChunkProcessed(r) ==
    /\ hnJobs' = r.jobs
    /\ nextId' = r.uuid
    /\ IF Len(r.jobs) >= HNLimit \/ HNChunkEnd = Len(hnCommentIds)
       THEN hnPc' = "Done" /\ UNCHANGED <<hnChunkStart, hnFetch>>
       ELSE HNStartChunk(hnCommentIds, HNChunkEnd)
    /\ UNCHANGED hnError

\* fetch_jobs, lines 129-172, with `result?` in place of `if let Ok(item)`
HNProcessBatchPropagating ==
    /\ hnPc = "AwaitBatch"
    /\ \A i \in (hnChunkStart + 1)..HNChunkEnd : hnFetch[i].st \in {"ok", "err"}
    /\ IF \E k \in DOMAIN HNResults : ~HNResults[k].ok
       THEN /\ hnPc' = "Error"
            /\ hnError' = Some("Failed to fetch HN item")
            /\ UNCHANGED <<hnJobs, nextId, hnChunkStart, hnFetch>>
       ELSE HNChunkProcessed(hn_process_results(HNResults, 1, hnJobs, hnArgs[1].keywords,
                                                hnArgs[1].location, HNLimit, nextId, clock))
    /\ clock' = clock + 1
    /\ UNCHANGED <<aggVars, hnArgs, hnSubmitted, hnScanPos, hnThreadId, hnCommentIds,
                   hnFailed, world, upstream, cleanVars, salVars,
                   callVars, repoVars>>
\* fetch_jobs, lines 129-172: every future of the chunk has completed; the
\* results are filtered into jobs, then the next chunk starts or Ok(jobs) returns
HNProcessBatch ==
    /\ hnPc = "AwaitBatch"
    /\ \A i \in (hnChunkStart + 1)..HNChunkEnd : hnFetch[i].st \in {"ok", "err"}
    /\ HNChunkProcessed(hn_process_results(HNResults, 1, hnJobs, hnArgs[1].keywords,
                                           hnArgs[1].location, HNLimit, nextId, clock))
    /\ clock' = clock + 1
    /\ UNCHANGED <<aggVars, hnArgs, hnSubmitted, hnScanPos, hnThreadId, hnCommentIds,
                   hnFailed, world, upstream, cleanVars, salVars,
                   callVars, repoVars>>

\* what fetch_jobs returned
HNResult == IF hnPc = "Done" THEN Ok(hnJobs) ELSE Err(hnError[1])

\* sources[1].fetch_jobs(..).await completes: the match on its result
CollectHN ==
    /\ aggPc = "calling"
    /\ aggIdx = 2
    /\ hnPc \in {"Done", "Error"}
    /\ AggHandle(HNResult)
    /\ UNCHANGED <<aggArgs, calls, hnVars, envVars, cleanVars, salVars,
                   callVars, repoVars>>

(***************************************************************************)
(* The aggregation pipeline                                                *)
(***************************************************************************)
MaxLimit == 1
MaxUpstream == 2
MaxSubmitted == 2
MaxKids == 2
MaxStoredKids == 3

\* the upstreams of a run: every API answers with at most one record, or one
\* API answers with up to the bound and the other two with none; the thread
\* of the last worlds stores MaxStoredKids items of the first two kinds
Worlds ==
    {[remotive |-> 1, arbeitnow |-> 1, submitted |-> 1, kids |-> 1, kinds |-> 1,
      items |-> <<>>],
     [remotive |-> MaxUpstream, arbeitnow |-> 0, submitted |-> 0, kids |-> 0, kinds |-> 0,
      items |-> <<>>],
     [remotive |-> 0, arbeitnow |-> MaxUpstream, submitted |-> 0, kids |-> 0, kinds |-> 0,
      items |-> <<>>],
     [remotive |-> 0, arbeitnow |-> 0, submitted |-> MaxSubmitted, kids |-> MaxKids,
      kinds |-> Len(HNCatalogue), items |-> <<>>]}
    \cup {[remotive |-> 0, arbeitnow |-> 0, submitted |-> 1, kids |-> MaxStoredKids,
           kinds |-> 2, items |-> t] : t \in [1..MaxStoredKids -> 1..2]}

Init ==
    /\ AggIdle /\ HnIdle /\ CleanIdle /\ SalaryIdle /\ CallIdle /\ RepoIdle
    /\ nextId = 1 /\ clock = 100 /\ upstream = NoUpstream
    /\ world \in Worlds

Next ==
    \/ \E keywords \in Keywords, location \in Locations, limit \in Limits(MaxLimit) :
          FetchAll(keywords, location, limit)
    \/ InvokeRemotive
    \/ InvokeHN
    \/ HNFetchUser
    \/ HNScanItem
    \/ HNFetchRoot
    \/ HNChildDone
    \/ HNProcessBatch
    \/ CollectHN
    \/ InvokeArbeitnow
    \/ Return

Spec == Init /\ [][Next]_vars


(***************************************************************************)
(* HNWhoIsHiringClient::fetch_jobs called on its own, against threads      *)
(* longer than one chunk and against threads whose stored items are known  *)
(***************************************************************************)
MaxThreadKids == 12

\* fetch_jobs is called on the client itself
HNFetchJobs(keywords, location, limit) ==
    /\ hnPc = "idle"
    /\ aggPc = "idle"
    /\ hnPc' = "ResolveRoot"
    /\ hnArgs' = Some([keywords |-> keywords, location |-> location, limit |-> limit])
    /\ UNCHANGED <<aggVars, hnSubmitted, hnScanPos, hnThreadId, hnCommentIds, hnChunkStart,
                   hnFetch, hnJobs, hnError, hnFailed, envVars, cleanVars, salVars,
                   callVars, repoVars>>

\* the upstream of a run: a thread of up to MaxThreadKids postings of the first kind
HNWorlds ==
    {[remotive |-> 0, arbeitnow |-> 0, submitted |-> 1, kids |-> MaxThreadKids, kinds |-> 1,
      items |-> <<>>]}

\* the limit fetch_jobs is called with: half the longest thread
HNLimits == {Some(MaxThreadKids \div 2)}

InitHN ==
    /\ AggIdle /\ HnIdle /\ CleanIdle /\ SalaryIdle /\ CallIdle /\ RepoIdle
    /\ nextId = 1 /\ clock = 100 /\ upstream = NoUpstream
    /\ world \in HNWorlds

NextHN ==
    \/ \E limit \in HNLimits : HNFetchJobs(None, None, limit)
    \/ HNFetchUser
    \/ HNScanItem
    \/ HNFetchRoot
    \/ HNChildDone
    \/ HNProcessBatch

SpecHN == InitHN /\ [][NextHN]_vars

(***************************************************************************)
(* fetch_all under the scheduling the code guarantees: the executor runs   *)
(* every step of the program that is ready.  A step that completes an      *)
(* HTTP request waits for the upstream; the clients are built with         *)
(* reqwest::Client::new(), which sets no timeout, so nothing forces it.    *)
(***************************************************************************)
SpecLive ==
    /\ Init /\ [][Next]_vars
    /\ WF_vars(InvokeHN)
    /\ WF_vars(HNProcessBatch)
    /\ WF_vars(CollectHN)
    /\ WF_vars(Return)

(***************************************************************************)
(* get_latest_hiring_thread_id against submission lists longer than the    *)
(* scan window.  fnIn holds the answer to the user request and fnOut the   *)
(* get_item calls of the scan, in the order they were made: the id asked   *)
(* for and what upstream served.                                           *)
(***************************************************************************)
MaxSubmissions == 11

\* the upstream of a run: a submitter with up to MaxSubmissions submissions
RootWorlds ==
    {[remotive |-> 0, arbeitnow |-> 0, submitted |-> MaxSubmissions, kids |-> 0, kinds |-> 0,
      items |-> <<>>]}

\* get_latest_hiring_thread_id, lines 34-41: the user request
RootFetchUser ==
    /\ hnPc = "ResolveRoot"
    /\ \E resp \in HNUserResponses :
          /\ HNUserFetched(resp)
          /\ fnIn' = Some(resp)
    /\ UNCHANGED <<aggVars, hnArgs, envVars, cleanVars, salVars, fn, fnOut, repoVars>>

\* what a get_item of the scan answered: 0 for an error, else the index in
\* HNTitles of the title of the item served
TitleKind(resp) ==
    IF resp.ok THEN CHOOSE t \in DOMAIN HNTitles : HNTitles[t] = resp.value.title ELSE 0
\* get_latest_hiring_thread_id, lines 46-54: get_item of the next submission
RootScanItem ==
    /\ hnPc = "Scan"
    /\ \E resp \in HNCandidateResponses :
          /\ HNItemScanned(resp)
          /\ fnOut' = Append(fnOut, [id |-> hnSubmitted[hnScanPos + 1],
                                     kind |-> TitleKind(resp)])
    /\ UNCHANGED <<aggVars, hnArgs, envVars, cleanVars, salVars, fn, fnIn, repoVars>>

InitRoot ==
    /\ AggIdle /\ HnIdle /\ CleanIdle /\ SalaryIdle /\ CallIdle /\ RepoIdle
    /\ nextId = 1 /\ clock = 100 /\ upstream = NoUpstream
    /\ world \in RootWorlds

NextRoot ==
    \/ HNFetchJobs(None, None, None)
    \/ RootFetchUser
    \/ RootScanItem

SpecRoot == InitRoot /\ [][NextRoot]_vars

(***************************************************************************)
(* fetch_jobs against a short thread, with the order in which the child    *)
(* fetches of a batch complete kept in fnOut                               *)
(***************************************************************************)
MaxOrderKids == 3

\* the upstream of a run: a thread of up to MaxOrderKids postings of the
\* first two kinds
OrderWorlds ==
    {[remotive |-> 0, arbeitnow |-> 0, submitted |-> 1, kids |-> MaxOrderKids, kinds |-> 2,
      items |-> <<>>]}

\* get_item(id) of one future of the chunk completes
OrderChildDone ==
    /\ hnPc = "AwaitBatch"
    /\ \E i \in DOMAIN hnFetch, resp \in HNChildResponses :
          /\ HNChildCompleted(i, resp)
          /\ fnOut' = Append(fnOut, i)
    /\ UNCHANGED <<aggVars, hnPc, hnArgs, hnSubmitted, hnScanPos, hnThreadId, hnCommentIds,
                   hnChunkStart, hnJobs, hnError, hnFailed, envVars, cleanVars, salVars,
                   fn, fnIn, repoVars>>

InitOrder ==
    /\ AggIdle /\ HnIdle /\ CleanIdle /\ SalaryIdle /\ CallIdle /\ RepoIdle
    /\ nextId = 1 /\ clock = 100 /\ upstream = NoUpstream
    /\ world \in OrderWorlds

NextOrder ==
    \/ \E limit \in {None, Some(MaxOrderKids - 1)} : HNFetchJobs(None, None, limit)
    \/ HNFetchUser
    \/ HNScanItem
    \/ HNFetchRoot
    \/ OrderChildDone
    \/ HNProcessBatch

SpecOrder == InitOrder /\ [][NextOrder]_vars
(***************************************************************************)
(* The text functions on their own: a cleaner applied twice to a text, and *)
(* parse_salary applied to a text.                                         *)
(***************************************************************************)
MaxCleanTokens == 3
MaxSalaryTokens == 4

\* every concatenation of at most n of the tokens T
RECURSIVE TokenStrings(_, _)
TokenStrings(T, n) ==
    IF n = 0 THEN {<<>>}
    ELSE LET P == TokenStrings(T, n - 1)
         IN  P \cup {p \o t : p \in P, t \in T}

CleanTokens ==
    {<<"&","a","m","p",";">>, <<"a","m","p",";">>, <<"&","l","t",";">>, <<"&","g","t",";">>, <<"<">>, <<">">>, <<"b">>, <<"\n">>, <<"<","/","p",">">>}
CleanFixtures ==
    {<<"<","p",">","H","e","l","l","o"," ","<","s","t","r","o","n","g",">","w","o","r","l","d","<","/","s","t","r","o","n","g",">","<","/","p",">","<","u","l",">","<","l","i",">","I","t","e","m"," ","1","<","/","l","i",">","<","l","i",">","I","t","e","m"," ","2","<","/","l","i",">","<","/","u","l",">">>,
     <<"<","h","2"," ","c","l","a","s","s","=","\"","t","\"",">","R","o","l","e","<","/","h","2",">","x","<","b","r","/",">","y">>,
     <<"s","e","e"," ","<","a"," ","h","r","e","f","=","\"","h","t","t","p",":","/","/","a",".","b","/","c","\"",">","h","e","r","e","<","/","a",">"," ","&","a","m","p",";"," ","<","i",">","a","p","p","l","y","<","/","i",">">>,
     <<"a","<","b","r",">","b","<","b","r"," ","/",">","c","<","/","d","i","v",">","<","l","i"," ","s","t","y","l","e","=","\"","\"",">","d","&","n","b","s","p",";","&","q","u","o","t",";","e","&","q","u","o","t",";"," ","&","#","x","2","7",";","f","&","#","3","9",";"," ","&","#","x","2","F",";"," ","&","#","x","2","6",";">>}
CleanInputs == TokenStrings(CleanTokens, MaxCleanTokens) \cup CleanFixtures

SalaryTokens == {<<"$">>, <<"5">>, <<"8">>, <<"0">>, <<"k">>, <<"-">>, <<",">>, <<".">>, <<" ">>, <<"/","h","r">>}
SalaryFixtures ==
    {<<"$","5","0","k","-","$","8","0","k">>, <<"$","3","0","-","$","3","5","/","h","o","u","r">>, <<"c","o","m","p","e","t","i","t","i","v","e">>, <<"$","8","5",",","0","0","0"," ","-"," ","$","1","2","0",",","0","0","0">>,
     <<"1",",","2","3","4","5">>, <<"5","0","K"," ","p","e","r"," ","h","o","u","r">>, <<"3","0",".","5"," ","/","H","r">>}
SalaryInputs == TokenStrings(SalaryTokens, MaxSalaryTokens) \cup SalaryFixtures
\* one more application of a cleaner to its own output
Apply(name, out) ==
    /\ cleaner = name
    /\ passes < 2
    /\ prev' = cur
    /\ cur' = out
    /\ passes' = passes + 1
    /\ UNCHANGED <<cleaner, aggVars, hnVars, envVars, salVars, callVars, repoVars>>
CleanRemotive == Apply("remotive", remotive_clean_html(cur))
CleanArbeitnow == Apply("arbeitnow", arbeitnow_clean_html(cur))
CleanHN == Apply("hn", clean_hn_html(cur))

InitClean ==
    /\ cleaner \in {"remotive", "arbeitnow", "hn"}
    /\ cur \in CleanInputs
    /\ prev = <<>>
    /\ passes = 0
    /\ AggIdle /\ HnIdle /\ EnvIdle /\ SalaryIdle /\ CallIdle /\ RepoIdle
NextClean == CleanRemotive \/ CleanArbeitnow \/ CleanHN
SpecClean == InitClean /\ [][NextClean]_vars

ParseSalary ==
    /\ ~salDone
    /\ salOut' = Some(parse_salary(salIn))
    /\ salDone' = TRUE
    /\ UNCHANGED <<salIn, aggVars, hnVars, envVars, cleanVars, callVars, repoVars>>

InitSalary ==
    /\ salIn \in SalaryInputs
    /\ salOut = None
    /\ salDone = FALSE
    /\ AggIdle /\ HnIdle /\ EnvIdle /\ CleanIdle /\ CallIdle /\ RepoIdle
NextSalary == ParseSalary
SpecSalary == InitSalary /\ [][NextSalary]_vars


(***************************************************************************)
(* The mappers on their own: the same payload is mapped twice, at two      *)
(* readings of the clock and with fresh Uuids.                             *)
(***************************************************************************)
MaxPayload == 2

\* the payloads: up to MaxPayload records of the adapter's catalogue
MapPayloads(name) ==
    IF name = "remotive"
    THEN {[i \in DOMAIN l |-> RemotiveCatalogue[l[i]]] :
             l \in SeqsUpTo(DOMAIN RemotiveCatalogue, MaxPayload)}
    ELSE IF name = "arbeitnow"
    THEN {[i \in DOMAIN l |-> ArbeitnowCatalogue[l[i]]] :
             l \in SeqsUpTo(DOMAIN ArbeitnowCatalogue, MaxPayload)}
    ELSE {[i \in DOMAIN l |->
              [id |-> 40 + i, by |-> HNCatalogue[l[i]].by, text |-> HNCatalogue[l[i]].text,
               time |-> HNCatalogue[l[i]].time, deleted |-> HNCatalogue[l[i]].deleted,
               dead |-> HNCatalogue[l[i]].dead]] :
             l \in SeqsUpTo(DOMAIN HNCatalogue, MaxPayload)}

\* one more mapping of the payload: out is what the mapper returned per record
Mapped(name, out) ==
    /\ fn = name
    /\ Len(fnOut) < 2
    /\ fnOut' = Append(fnOut, out)
    /\ nextId' = nextId + Len(fnIn)
    /\ clock' = clock + 1
    /\ UNCHANGED <<fn, fnIn, world, upstream, aggVars, hnVars, cleanVars, salVars, repoVars>>
\* response.jobs.into_iter().map(|rj| convert_remotive_job(rj))
MapRemotive ==
    Mapped("remotive",
           [i \in DOMAIN fnIn |-> Some(convert_remotive_job(fnIn[i], nextId + i - 1, clock))])
\* .map(|aj| convert_arbeitnow_job(aj))
MapArbeitnow ==
    Mapped("arbeitnow",
           [i \in DOMAIN fnIn |-> Some(convert_arbeitnow_job(fnIn[i], nextId + i - 1, clock))])
\* parse_hn_job_posting(&item, thread_id) per item
MapHN ==
    Mapped("hn", [i \in DOMAIN fnIn |-> parse_hn_job_posting(fnIn[i], nextId + i - 1, clock)])

InitMap ==
    /\ fn \in {"remotive", "arbeitnow", "hn"}
    /\ fnIn \in MapPayloads(fn)
    /\ fnOut = <<>>
    /\ AggIdle /\ HnIdle /\ EnvIdle /\ CleanIdle /\ SalaryIdle /\ RepoIdle
NextMap == MapRemotive \/ MapArbeitnow \/ MapHN
SpecMap == InitMap /\ [][NextMap]_vars

(***************************************************************************)
(* SqliteJobRepository: upsert_by_source run by concurrent callers on one  *)
(* pool.  A call is two statements, each awaited: the SELECT, then the     *)
(* UPDATE or the INSERT of create.                                         *)
(***************************************************************************)
MaxCallers == 2
MaxUpserts == 3

\* two digits of a number below 100
TwoDigits(n) == <<<<"0","1","2","3","4","5","6","7","8","9">>[(n \div 10) + 1], <<"0","1","2","3","4","5","6","7","8","9">>[(n % 10) + 1]>>
\* DateTime<Utc>::to_rfc3339 of an instant within the first day of the epoch
to_rfc3339(t) ==
    <<"1","9","7","0","-","0","1","-","0","1","T">> \o TwoDigits(t \div 3600) \o <<":">> \o TwoDigits((t \div 60) % 60)
        \o <<":">> \o TwoDigits(t % 60) \o <<"+","0","0",":","0","0">>
\* serde_json::to_string of a Vec<String> whose strings need no escaping
requirements_json(reqs) ==
    <<"[">> \o join([i \in DOMAIN reqs |-> <<"\"">> \o reqs[i] \o <<"\"">>], <<",">>) \o <<"]">>
\* create, lines 524-533: the text stored for a JobSource
source_str(source) ==
    CASE source.variant = "Other" -> source.name
      [] source.variant = "LinkedIn" -> <<"L","i","n","k","e","d","I","n">>
      [] source.variant = "Indeed" -> <<"I","n","d","e","e","d">>
      [] source.variant = "Glassdoor" -> <<"G","l","a","s","s","d","o","o","r">>
      [] source.variant = "AngelList" -> <<"A","n","g","e","l","L","i","s","t">>
      [] source.variant = "Remotive" -> <<"R","e","m","o","t","i","v","e">>
      [] source.variant = "HNWhoIsHiring" -> <<"H","N"," ","W","h","o","'","s"," ","H","i","r","i","n","g">>
      [] source.variant = "Arbeitnow" -> <<"A","r","b","e","i","t","n","o","w">>

\* the Jobs the callers pass: a title and a source_url each
RepoTitles == {<<"R","u","s","t"," ","D","e","v">>, <<"G","o"," ","D","e","v">>}
RepoUrls == {<<"h","t","t","p","s",":","/","/","r","e","m","o","t","i","v","e",".","c","o","m","/","j","/","1">>, <<"h","t","t","p","s",":","/","/","r","e","m","o","t","i","v","e",".","c","o","m","/","j","/","2">>}
RepoJob(uuid, title, url, now) ==
    [id |-> uuid, title |-> title, company |-> <<"A","c","m","e">>, location |-> <<"R","e","m","o","t","e"," ","-"," ","U","S","A">>,
     description |-> title, requirements |-> <<<<"r","u","s","t">>>>, salary_range |-> None,
     source |-> Other(<<"R","e","m","o","t","i","v","e">>), source_url |-> url, posted_date |-> now,
     scraped_at |-> now]

\* create, lines 512-556: the values bound to the INSERT
job_row(job) ==
    [id |-> ToDecimal(job.id), title |-> job.title, company |-> job.company,
     location |-> job.location, description |-> job.description,
     requirements |-> requirements_json(job.requirements),
     salary_min |-> IF IsSome(job.salary_range) THEN Some(job.salary_range[1].min) ELSE None,
     salary_max |-> IF IsSome(job.salary_range) THEN Some(job.salary_range[1].max) ELSE None,
     salary_currency |-> IF IsSome(job.salary_range) THEN Some(job.salary_range[1].currency)
                         ELSE None,
     salary_period |-> IF IsSome(job.salary_range) THEN Some(job.salary_range[1].period)
                       ELSE None,
     source |-> source_str(job.source), source_url |-> job.source_url,
     posted_date |-> to_rfc3339(job.posted_date), scraped_at |-> to_rfc3339(job.scraped_at)]

\* SELECT id FROM jobs WHERE source_url = ?
RowsWithUrl(url) == {r \in DOMAIN dbRows : dbRows[r].source_url = url}

\* upsert_by_source, lines 679-684: caller p calls with a Job and the SELECT runs
UpsertSelect(p, job) ==
    /\ upCalls[p].pc \in {"idle", "done"}
    /\ nextId <= MaxUpserts
    /\ upCalls' = [upCalls EXCEPT ![p] = [pc |-> "selected", job |-> Some(job),
                                          existing |-> RowsWithUrl(job.source_url) # {},
                                          result |-> None]]
    /\ nextId' = nextId + 1
    /\ clock' = clock + 1
    /\ UNCHANGED <<dbRows, world, upstream, aggVars, hnVars, cleanVars, salVars, callVars>>

\* upsert_by_source, lines 686-702: the UPDATE of every row with the source_url
UpsertUpdate(p) ==
    /\ upCalls[p].pc = "selected"
    /\ upCalls[p].existing
    /\ dbRows' = [r \in DOMAIN dbRows |->
                    IF dbRows[r].source_url = upCalls[p].job[1].source_url
                    THEN [dbRows[r] EXCEPT !.title = upCalls[p].job[1].title,
                                          !.company = upCalls[p].job[1].company,
                                          !.location = upCalls[p].job[1].location,
                                          !.description = upCalls[p].job[1].description,
                                          !.requirements =
                                              requirements_json(upCalls[p].job[1].requirements)]
                    ELSE dbRows[r]]
    /\ upCalls' = [upCalls EXCEPT ![p].pc = "done", ![p].result = Some(Ok(upCalls[p].job[1]))]
    /\ UNCHANGED <<envVars, aggVars, hnVars, cleanVars, salVars, callVars>>

\* upsert_by_source, lines 703-705, and create: the INSERT of the Job; the row
\* is appended whatever rows the table holds
UpsertInsert(p) ==
    /\ upCalls[p].pc = "selected"
    /\ ~upCalls[p].existing
    /\ dbRows' = Append(dbRows, job_row(upCalls[p].job[1]))
    /\ upCalls' = [upCalls EXCEPT ![p].pc = "done", ![p].result = Some(Ok(upCalls[p].job[1]))]
    /\ UNCHANGED <<envVars, aggVars, hnVars, cleanVars, salVars, callVars>>

InitRepo ==
    /\ dbRows = <<>>
    /\ upCalls = [p \in 1..MaxCallers |->
                    [pc |-> "idle", job |-> None, existing |-> FALSE, result |-> None]]
    /\ AggIdle /\ HnIdle /\ EnvIdle /\ CleanIdle /\ SalaryIdle /\ CallIdle
NextRepo ==
    \/ \E p \in 1..MaxCallers, title \in RepoTitles, url \in RepoUrls :
          UpsertSelect(p, RepoJob(nextId, title, url, clock))
    \/ \E p \in 1..MaxCallers : UpsertUpdate(p)
    \/ \E p \in 1..MaxCallers : UpsertInsert(p)
SpecRepo == InitRepo /\ [][NextRepo]_vars

(***************************************************************************)
(* extract_technologies on its own                                         *)
(***************************************************************************)
MaxTechTokens == 3

TechTokens ==
    {<<"P","y","t","h","o","n">>, <<"p","y","t","h","o","n"," ">>, <<"R","E","A","C","T">>, <<"J","a","v","a">>, <<"S","c","r","i","p","t">>, <<"g","o">>, <<"o","d"," ">>, <<"A","W","S">>, <<"m","l">>}
TechFixtures == {<<"L","o","o","k","i","n","g"," ","f","o","r"," ","P","y","t","h","o","n"," ","a","n","d"," ","R","e","a","c","t"," ","d","e","v","e","l","o","p","e","r","s"," ","w","i","t","h"," ","A","W","S"," ","e","x","p","e","r","i","e","n","c","e">>}
TechInputs == TokenStrings(TechTokens, MaxTechTokens) \cup TechFixtures

\* extract_technologies(text) is called
ExtractTechnologies ==
    /\ fn = "extract_technologies"
    /\ fnOut = <<>>
    /\ fnOut' = <<extract_technologies(fnIn)>>
    /\ UNCHANGED <<fn, fnIn, aggVars, hnVars, envVars, cleanVars, salVars, repoVars>>

InitTech ==
    /\ fn = "extract_technologies"
    /\ fnIn \in TechInputs
    /\ fnOut = <<>>
    /\ AggIdle /\ HnIdle /\ EnvIdle /\ CleanIdle /\ SalaryIdle /\ RepoIdle
NextTech == ExtractTechnologies
SpecTech == InitTech /\ [][NextTech]_vars
(***************************************************************************)
(* parse_first_line on its own                                             *)
(***************************************************************************)
MaxHeaderTokens == 4

HeaderTokens ==
    {<<"A","c","m","e">>, <<" ">>, <<"|">>, <<"i","s"," ","h","i","r","i","n","g"," ">>, <<"D","e","v">>, <<" ","R","E","M","O","T","E">>, <<"s","e","e","k","s">>}
HeaderFixtures ==
    {<<"A","c","m","e"," ","C","o","r","p"," ","|"," ","S","e","n","i","o","r"," ","E","n","g","i","n","e","e","r"," ","|"," ","S","a","n"," ","F","r","a","n","c","i","s","c","o"," ","|"," ","R","E","M","O","T","E">>,
     <<"A","c","m","e"," ","i","s"," ","h","i","r","i","n","g"," ","|"," ","R","u","s","t"," ","D","e","v"," ","|"," ","B","e","r","l","i","n">>,
     <<"o","n","e"," ","t","w","o"," ","t","h","r","e","e"," ","f","o","u","r"," ","f","i","v","e"," ","s","i","x"," ","O","N","S","I","T","E"," ","B","e","r","l","i","n">>}
HeaderInputs == TokenStrings(HeaderTokens, MaxHeaderTokens) \cup HeaderFixtures

\* parse_first_line(line) is called
ParseFirstLine ==
    /\ fn = "parse_first_line"
    /\ fnOut = <<>>
    /\ fnOut' = <<parse_first_line(fnIn)>>
    /\ UNCHANGED <<fn, fnIn, aggVars, hnVars, envVars, cleanVars, salVars, repoVars>>

InitHeader ==
    /\ fn = "parse_first_line"
    /\ fnIn \in HeaderInputs
    /\ fnOut = <<>>
    /\ AggIdle /\ HnIdle /\ EnvIdle /\ CleanIdle /\ SalaryIdle /\ RepoIdle
NextHeader == ParseFirstLine
SpecHeader == InitHeader /\ [][NextHeader]_vars

(***************************************************************************)
(* detect_location on its own                                              *)
(***************************************************************************)
MaxLocationTokens == 3

LocationTokens ==
    {<<"r","e","m","o","t","e">>, <<"R","E","M","O","T","E">>, <<" ","u","s">>, <<"U","S","A">>, <<"E","U">>, <<"E","u","r","o","p","e">>, <<"o","n","s","i","t","e">>, <<"O","n","-","S","i","t","e">>,
     <<" ">>, <<"B","e","r","l","i","n">>, <<"A","u","s","t","i","n">>, <<"b","e","r","l","i","n">>, <<"x">>}
LocationFixtures == {<<"W","e"," ","a","r","e"," ","R","E","M","O","T","E"," ","f","i","r","s","t">>, <<"R","E","M","O","T","E"," ","(","U","S"," ","o","n","l","y",")">>}
LocationInputs == TokenStrings(LocationTokens, MaxLocationTokens) \cup LocationFixtures

\* detect_location(text) is called
DetectLocation ==
    /\ fn = "detect_location"
    /\ fnOut = <<>>
    /\ fnOut' = <<detect_location(fnIn)>>
    /\ UNCHANGED <<fn, fnIn, aggVars, hnVars, envVars, cleanVars, salVars, repoVars>>

InitLocation ==
    /\ fn = "detect_location"
    /\ fnIn \in LocationInputs
    /\ fnOut = <<>>
    /\ AggIdle /\ HnIdle /\ EnvIdle /\ CleanIdle /\ SalaryIdle /\ RepoIdle
NextLocation == DetectLocation
SpecLocation == InitLocation /\ [][NextLocation]_vars


(***************************************************************************)
(* SqliteJobRepository::search over rows stored by create                  *)
(***************************************************************************)
MaxStored == 2

\* format!("%{}%", s)
like_pattern(s) == <<"%">> \o s \o <<"%">>
\* text LIKE pattern for a pattern %x% whose x holds no wildcard: x occurs in
\* the text, ASCII letters compared without case
sql_like(text, pattern) ==
    Contains(to_lowercase(text), to_lowercase(Slice(pattern, 2, Len(pattern) - 1)))
\* the value of parameter ?n of a statement with the given binds: sqlx leaves
\* a parameter without a bind unbound, and SQLite reads it as NULL (None)
sql_param(binds, n) == IF n <= Len(binds) THEN Some(binds[n]) ELSE None
\* search, lines 601-613: the WHERE clause, for one row
search_where(row, query, binds) ==
    /\ IsSome(query.keywords) =>
          \/ sql_like(row.title, sql_param(binds, 1)[1])
          \/ sql_like(row.description, sql_param(binds, 1)[1])
          \/ sql_like(row.company, sql_param(binds, 1)[1])
    /\ IsSome(query.location) => sql_like(row.location, sql_param(binds, 2)[1])
    /\ IsSome(query.min_salary) =>
          IsSome(row.salary_min) /\ row.salary_min[1] >= sql_param(binds, 3)[1]
    \* no statement of the repository sets is_remote to 1
    /\ ~query.remote_only
    /\ query.sources # <<>> =>
          \E i \in DOMAIN query.sources :
              /\ IsSome(sql_param(binds, i + 3))
              /\ row.source = sql_param(binds, i + 3)[1]
\* the order of two TEXT values that differ in digits only, as memcmp gives it
RECURSIVE TextLeq(_, _)
TextLeq(a, b) ==
    IF a = <<>> THEN TRUE
    ELSE IF b = <<>> THEN FALSE
    ELSE IF Head(a) = Head(b) THEN TextLeq(Tail(a), Tail(b))
    ELSE DigitValue(Head(a)) < DigitValue(Head(b))
\* ORDER BY posted_date DESC: ord lists the selected rows, newer before older
OrderedByPostedDesc(ord, rows, selected) ==
    /\ Len(ord) = Cardinality(selected)
    /\ {ord[i] : i \in DOMAIN ord} = selected
    /\ \A i, j \in DOMAIN ord :
          i < j => TextLeq(rows[ord[j]].posted_date, rows[ord[i]].posted_date)
\* LIMIT limit OFFSET offset on the ordered rows
limit_offset(ord, limit, offset) ==
    LET from == unwrap_or(offset, 0) + 1
        to == IF IsSome(limit) /\ from + limit[1] - 1 < Len(ord)
              THEN from + limit[1] - 1 ELSE Len(ord)
    IN  Slice(ord, from, to)
\* serde_json::from_str of the text requirements_json writes
requirements_from_json(s) ==
    IF Len(s) <= 2 THEN <<>>
    ELSE [i \in DOMAIN split(Slice(s, 2, Len(s) - 1), ",") |->
            Slice(split(Slice(s, 2, Len(s) - 1), ",")[i], 2,
                  Len(split(Slice(s, 2, Len(s) - 1), ",")[i]) - 1)]
\* row_to_job, lines 709-760, for a row whose dates parse
row_to_job(row) ==
    [id |-> DecimalValue(row.id), title |-> row.title, company |-> row.company,
     location |-> row.location, description |-> row.description,
     requirements |-> requirements_from_json(row.requirements),
     salary_range |->
        IF IsSome(row.salary_min) /\ IsSome(row.salary_max)
        THEN Some([min |-> row.salary_min[1], max |-> row.salary_max[1],
                   currency |-> unwrap_or(row.salary_currency, "USD"),
                   period |-> IF row.salary_period = Some("Hourly") THEN "Hourly"
                              ELSE "Annual"])
        ELSE None,
     source |-> IF row.source = <<"L","i","n","k","e","d","I","n">> THEN [variant |-> "LinkedIn"]
                ELSE IF row.source = <<"I","n","d","e","e","d">> THEN [variant |-> "Indeed"]
                ELSE IF row.source = <<"G","l","a","s","s","d","o","o","r">> THEN [variant |-> "Glassdoor"]
                ELSE IF row.source = <<"A","n","g","e","l","L","i","s","t">> THEN [variant |-> "AngelList"]
                ELSE IF row.source = <<"R","e","m","o","t","i","v","e">> THEN [variant |-> "Remotive"]
                ELSE IF row.source = <<"H","N"," ","W","h","o","'","s"," ","H","i","r","i","n","g">> THEN [variant |-> "HNWhoIsHiring"]
                ELSE IF row.source = <<"A","r","b","e","i","t","n","o","w">> THEN [variant |-> "Arbeitnow"]
                ELSE Other(row.source),
     source_url |-> row.source_url,
     posted_date |-> parse_from_rfc3339(row.posted_date)[1],
     scraped_at |-> parse_from_rfc3339(row.scraped_at)[1]]
\* search, lines 577-639: what the call returns when the statement gives its
\* rows in the order ord
search(query, rows, ord) ==
    IF ~IsSome(query.limit) /\ IsSome(query.offset)
    THEN Err("near \"OFFSET\": syntax error")
    ELSE IF \E r \in DOMAIN rows : ~IsSome(parse_from_rfc3339(rows[r].posted_date))
                                  \/ ~IsSome(parse_from_rfc3339(rows[r].scraped_at))
    THEN Err("input contains invalid characters")
    ELSE Ok([i \in DOMAIN limit_offset(ord, query.limit, query.offset) |->
                row_to_job(rows[limit_offset(ord, query.limit, query.offset)[i]])])
\* search, lines 579-628: the three values bound to the statement
search_binds(query) ==
    <<IF IsSome(query.keywords) THEN like_pattern(query.keywords[1]) ELSE <<>>,
      IF IsSome(query.location) THEN like_pattern(query.location[1]) ELSE <<>>,
      unwrap_or(query.min_salary, 0)>>

\* the Jobs the callers store and the queries they search with
StoredSources == {Other(<<"R","e","m","o","t","i","v","e">>), Other(<<"A","r","b","e","i","t","n","o","w">>)}
StoredJob(uuid, title, source, posted, now) ==
    [RepoJob(uuid, title, <<"h","t","t","p","s",":","/","/","e","x","a","m","p","l","e",".","c","o","m","/","j","/">> \o ToDecimal(uuid), now)
       EXCEPT !.source = source, !.posted_date = posted]
SearchQueries ==
    [keywords : {None, Some(<<"r","u","s","t">>)}, location : {None, Some(<<"u","s","a">>)},
     min_salary : {None, Some(1)},
     sources : {<<>>, <<[variant |-> "Remotive"]>>,
                <<[variant |-> "Arbeitnow"], Other(<<"R","e","m","o","t","i","v","e">>)>>},
     remote_only : {FALSE}, limit : {None, Some(1)}, offset : {None, Some(1)}]

\* JobRepository::create(job)
RepoCreate(job) ==
    /\ fn = "none"
    /\ Len(dbRows) < MaxStored
    /\ dbRows' = Append(dbRows, job_row(job))
    /\ nextId' = nextId + 1
    /\ clock' = clock + 1
    /\ UNCHANGED <<upCalls, world, upstream, aggVars, hnVars, cleanVars, salVars, callVars>>
\* JobRepository::search(query)
RepoSearch(query) ==
    /\ fn = "none"
    /\ \E ord \in SeqsUpTo(DOMAIN dbRows, Len(dbRows)) :
          /\ OrderedByPostedDesc(ord, dbRows,
                {r \in DOMAIN dbRows : search_where(dbRows[r], query, search_binds(query))})
          /\ fnOut' = <<search(query, dbRows, ord)>>
    /\ fn' = "search"
    /\ fnIn' = query
    /\ UNCHANGED <<repoVars, envVars, aggVars, hnVars, cleanVars, salVars>>

InitSearch ==
    /\ AggIdle /\ HnIdle /\ EnvIdle /\ CleanIdle /\ SalaryIdle /\ CallIdle /\ RepoIdle
NextSearch ==
    \/ \E title \in RepoTitles, source \in StoredSources, posted \in 1..2 :
          RepoCreate(StoredJob(nextId, title, source, posted, clock))
    \/ \E query \in SearchQueries : RepoSearch(query)
SpecSearch == InitSearch /\ [][NextSearch]_vars
(***************************************************************************)
(* Properties of the aggregation pipeline (specification Spec)            *)
(***************************************************************************)
\* what the adapter called i-th contributed: its jobs, or nothing if it failed
Contribution(i) == IF returned[i].ok THEN returned[i].value ELSE <<>>
AllCollected == aggPc = "returned" /\ Len(returned) = 3

\* C1: fetch_all never returns an error: whatever each adapter's outcome, the
\* call returns Ok with a list, and the list is empty when every adapter failed.
C1_FetchAllNeverErrors ==
    /\ IsSome(aggResult) => aggResult[1].ok
    /\ aggPc = "returned" =>
          /\ IsSome(aggResult) /\ aggResult[1].ok
          /\ Len(returned) = 3
          /\ (\A i \in 1..3 : ~returned[i].ok) => aggResult[1].value = <<>>
\* C1 happens: fetch_all has returned after all three adapters failed
C1_Witness ==
    /\ AllCollected
    /\ \A i \in 1..3 : ~returned[i].ok
    /\ aggResult = Some(Ok(<<>>))

\* C2: the list fetch_all returns is the concatenation of the lists of the
\* adapters that succeeded, in the order Remotive, HN Who's Hiring, Arbeitnow,
\* each in its own order; its length is the sum of their counts.
C2_ConcatenationInOrder ==
    aggPc = "returned" =>
       /\ Len(returned) = 3
       /\ \A i \in 1..3 : calls[i].source = <<<<"R","e","m","o","t","i","v","e">>, <<"H","N"," ","W","h","o","'","s"," ","H","i","r","i","n","g">>, <<"A","r","b","e","i","t","n","o","w">>>>[i]
       /\ aggResult[1].value = Contribution(1) \o Contribution(2) \o Contribution(3)
       /\ Len(aggResult[1].value)
            = Len(Contribution(1)) + Len(Contribution(2)) + Len(Contribution(3))
       /\ \A i \in 1..3 : \A j \in 1..Len(Contribution(i)) :
             Contribution(i)[j].source = Other(calls[i].source)
\* C2 happens: all three adapters succeeded with at least one job each
C2_Witness ==
    /\ AllCollected
    /\ \A i \in 1..3 : returned[i].ok /\ Len(returned[i].value) >= 1
    /\ Len(aggResult[1].value) >= 3

\* C3: in one fetch_all call every adapter is invoked exactly once with the
\* keywords, location and limit of the call, also after an earlier adapter
\* failed; every failing adapter gets exactly one warning naming it and no
\* succeeding adapter gets one.
C3_EveryAdapterInvokedOnce ==
    /\ Len(calls) <= 3
    /\ \A i \in DOMAIN calls :
          /\ calls[i].source = Sources[i]
          /\ calls[i].keywords = aggArgs[1].keywords
          /\ calls[i].location = aggArgs[1].location
          /\ calls[i].limit = aggArgs[1].limit
    /\ hnPc # "idle" => hnArgs = aggArgs
    /\ aggPc = "returned" => Len(calls) = 3
    /\ \A i \in DOMAIN returned :
          Cardinality({w \in DOMAIN warnings : warnings[w].source = Sources[i]})
             = IF returned[i].ok THEN 0 ELSE 1
    /\ \A w \in DOMAIN warnings :
          \E i \in DOMAIN returned : warnings[w].source = Sources[i] /\ ~returned[i].ok
\* C3 happens: the first and the last adapter failed, the middle one succeeded
C3_Witness ==
    /\ AllCollected
    /\ ~returned[1].ok /\ returned[2].ok /\ ~returned[3].ok
    /\ Len(calls) = 3
    /\ Len(warnings) = 2

\* C4: for each adapter and every upstream response, fetch_jobs called with
\* limit = Some(n) returns at most n jobs.
C4_AtMostLimitJobs ==
    \A i \in DOMAIN returned :
       (returned[i].ok /\ IsSome(calls[i].limit)) =>
           Len(returned[i].value) <= calls[i].limit[1]

\* C5: every Job an adapter's fetch_jobs returns, and so every Job fetch_all
\* returns, has a non-empty source_url, whatever the upstream records contain.
C5_SourceUrlNonEmpty ==
    /\ \A i \in DOMAIN returned : \A j \in 1..Len(Contribution(i)) :
          Contribution(i)[j].source_url # <<>>
    /\ \A j \in DOMAIN all_jobs : all_jobs[j].source_url # <<>>

\* the URL parse_hn_job_posting gives the posting of item id
ItemUrl(id) == <<"h","t","t","p","s",":","/","/","n","e","w","s",".","y","c","o","m","b","i","n","a","t","o","r",".","c","o","m","/","i","t","e","m","?","i","d","=">> \o ToDecimal(id)
RootFetched == IsSome(hnThreadId) /\ hnPc # "FetchChildIds" /\ "root" \notin hnFailed

\* C9: in the HN adapter a failing child fetch never fails the call: once the
\* root was resolved and fetched, fetch_jobs returns Ok whatever children
\* fail, and a child whose fetch failed contributes no Job.
C9_ChildFailureSkipped ==
    /\ RootFetched =>
          /\ hnPc \in {"AwaitBatch", "Done"}
          /\ hnError = None
          /\ Len(returned) >= 2 => returned[2].ok /\ returned[2].value = hnJobs
    /\ \A i \in DOMAIN hnFetch :
          hnFetch[i].st = "err" =>
             \A j \in DOMAIN hnJobs : hnJobs[j].source_url # ItemUrl(hnCommentIds[i])
\* C9 happens: fetch_jobs returned Ok after one child failed and another gave a job
C9_Witness ==
    /\ hnPc = "Done"
    /\ \E i \in DOMAIN hnFetch : hnFetch[i].st = "err"
    /\ \E i \in DOMAIN hnFetch :
          /\ hnFetch[i].st = "ok"
          /\ \E j \in DOMAIN hnJobs : hnJobs[j].source_url = ItemUrl(hnCommentIds[i])
    /\ Len(returned) >= 2 /\ returned[2].ok /\ Len(returned[2].value) >= 1

NoChildFetched == \A i \in DOMAIN hnFetch : hnFetch[i].st = "none"
HNEndedInError ==
    /\ hnPc = "Error"
    /\ IsSome(hnError)
    /\ hnJobs = <<>>
    /\ NoChildFetched
    /\ Len(returned) >= 2 => ~returned[2].ok /\ returned[2].error = hnError[1]

DigitRuns(s) == {i \in 1..Len(s) : s[i] \in Digits /\ (i = 1 \/ s[i - 1] \notin Digits)}

\* C6: every salary range the parser produces has min <= max, for every input
\* string, and min = max when the string holds a single figure.
C6_MinAtMostMax ==
    (salDone /\ IsSome(salOut[1])) =>
       /\ salOut[1][1].min <= salOut[1][1].max
       /\ Cardinality(DigitRuns(salIn)) = 1 => salOut[1][1].min = salOut[1][1].max

(***************************************************************************)
(* Properties of the cleaners (specification SpecClean)                    *)
(***************************************************************************)
\* C7: the cleaner is idempotent: clean(clean(x)) = clean(x) for every input x,
\* for the Remotive, the Arbeitnow and the HN cleaner.
C7_CleanIdempotent == passes = 2 => cur = prev

\* the number of c in the first i characters of s
CountUpTo(s, c, i) == Cardinality({k \in 1..i : s[k] = c})
\* every '<' of s is closed by a '>' before the next '<', and no '>' is unopened
Balanced(s) ==
    /\ \A i \in 1..Len(s) : CountUpTo(s, "<", i) - CountUpTo(s, ">", i) \in {0, 1}
    /\ CountUpTo(s, "<", Len(s)) = CountUpTo(s, ">", Len(s))
\* s holds a tag: a '<', one or more characters other than '>', and a '>'
HasTag(s) ==
    \E i \in 1..Len(s) : \E j \in (i + 2)..Len(s) :
       /\ s[i] = "<"
       /\ s[j] = ">"
       /\ \A k \in (i + 1)..(j - 1) : s[k] # ">"

\* C8 as claimed: for every input whose tags are balanced the output of clean
\* holds no '<' that is followed later by a '>'.
C8_NoBracketPairLeft ==
    (passes >= 1 /\ Balanced(prev)) =>
       ~ \E i \in 1..Len(cur) : \E j \in (i + 1)..Len(cur) : cur[i] = "<" /\ cur[j] = ">"
\* C8 as amended: for every input whose tags are balanced the output of clean
\* holds no tag, that is no '<' followed by one or more characters other than
\* '>' and then a '>'; an empty pair "<>" is not a tag and stays.
C8_NoTagLeft == (passes >= 1 /\ Balanced(prev)) => ~HasTag(cur)
\* C8 happens: a balanced input with tags around text was cleaned to the text
C8_Witness ==
    /\ passes = 1
    /\ Balanced(prev) /\ HasTag(prev)
    /\ cur # <<>>
    /\ \A i \in 1..Len(cur) : cur[i] \notin {"<", ">"}


(***************************************************************************)
(* Claims C11, C12: chunked child fetches and the stop at the limit        *)
(***************************************************************************)
\* the child fetches started and not yet completed
InFlight == {i \in DOMAIN hnFetch : hnFetch[i].st = "inflight"}
\* the batch the i-th candidate belongs to, counted from 0
BatchOf(i) == (i - 1) \div 10

\* C11: at every moment at most 10 child fetches are in flight, and no fetch of
\* a later batch has started while a fetch of an earlier batch has not completed
C11_ChildFetchesBounded ==
    /\ Cardinality(InFlight) <= 10
    /\ \A i, j \in DOMAIN hnFetch :
          (BatchOf(i) < BatchOf(j) /\ hnFetch[j].st # "none")
             => hnFetch[i].st \in {"ok", "err"}
\* a fetch of the second batch is in flight
C11_Witness ==
    \E j \in InFlight : BatchOf(j) = 1 /\ hnFetch[1].st \in {"ok", "err"}

\* the accepted postings have reached the limit of the call
LimitReached == IsSome(hnArgs) /\ hnJobs # <<>> /\ Len(hnJobs) >= hnArgs[1].limit[1]

\* C12: once the accepted postings reach the limit the call is Done, holds
\* exactly limit jobs, has no child fetch in flight and has started no fetch
\* of a later batch
C12_StopsAtLimit ==
    LimitReached =>
        /\ hnPc = "Done"
        /\ Len(hnJobs) = hnArgs[1].limit[1]
        /\ InFlight = {}
        /\ \A i \in DOMAIN hnFetch :
              BatchOf(i) > BatchOf(hnChunkStart + 1) => hnFetch[i].st = "none"
\* the limit was reached in the first batch, which held more postings than
\* the limit, while a second batch of candidates was still waiting
C12_Witness ==
    /\ LimitReached
    /\ hnChunkStart = 0
    /\ Len(hnCommentIds) > 10
    /\ Cardinality({i \in DOMAIN hnFetch : hnFetch[i].st = "ok"}) > Len(hnJobs)

(***************************************************************************)
(* Claim C13: the limit is applied after filtering                         *)
(***************************************************************************)
\* the first min(n, Len(s)) elements of s
FirstMin(s, n) == [i \in 1..(IF n < Len(s) THEN n ELSE Len(s)) |-> s[i]]
\* the postings of the Arbeitnow payload that pass the filters of the call
ArbeitnowPassing ==
    SelectSeq(upstream.arbeitnow[1].value,
              LAMBDA aj : arbeitnow_matches(aj, calls[3].keywords, calls[3].location))
\* Arbeitnow returned the first min(n, m) of the m passing postings, in order
ArbeitnowFirstMin ==
    (Len(returned) >= 3 /\ returned[3].ok /\ IsSome(calls[3].limit)) =>
        [i \in DOMAIN returned[3].value |-> returned[3].value[i].title]
          = [i \in DOMAIN FirstMin(ArbeitnowPassing, calls[3].limit[1]) |->
                FirstMin(ArbeitnowPassing, calls[3].limit[1])[i].title]
\* the item of the given kind under the id of the i-th kid of the thread
KidItem(i, kind) ==
    [id |-> upstream.thread[1].value.kids[i], by |-> HNCatalogue[kind].by,
     text |-> HNCatalogue[kind].text, time |-> HNCatalogue[kind].time,
     deleted |-> HNCatalogue[kind].deleted, dead |-> HNCatalogue[kind].dead]
\* the item is a posting that passes the filters of the call
HNPasses(item) ==
    hn_accept(Ok(item), <<>>, hnArgs[1].keywords, hnArgs[1].location, 0, 0).jobs # <<>>
\* the kids of the whole thread whose stored item passes the filters
ThreadPassing ==
    SelectSeq([i \in DOMAIN upstream.thread[1].value.kids |-> i],
              LAMBDA i : HNPasses(KidItem(i, world.items[i])))
\* the candidates (the first 2 * limit kids) fetched with success whose item
\* passes the filters
CandidatesPassing ==
    SelectSeq([i \in DOMAIN hnCommentIds |-> i],
              LAMBDA i : hnFetch[i].st = "ok" /\ HNPasses(KidItem(i, hnFetch[i].kind)))
\* the urls of the jobs fetch_jobs holds are those of the given kids
HNJobsAre(kidIndices) ==
    [j \in DOMAIN hnJobs |-> hnJobs[j].source_url]
      = [j \in DOMAIN kidIndices |-> ItemUrl(upstream.thread[1].value.kids[kidIndices[j]])]

\* C13 as stated: Arbeitnow and HN return the first min(n, m) of the m upstream
\* postings that pass the filters, in upstream order (for HN: of the postings
\* of the thread, when no child fetch failed)
C13_FirstOfAllPassing ==
    /\ ArbeitnowFirstMin
    /\ (hnPc = "Done" /\ world.items # <<>> /\ IsSome(hnArgs[1].limit)
        /\ \A i \in DOMAIN hnFetch : hnFetch[i].st # "err")
         => HNJobsAre(FirstMin(ThreadPassing, hnArgs[1].limit[1]))
\* C13 amended: Arbeitnow returns the first min(n, m) of the m passing postings
\* of the payload; HN returns the first min(n, m) of the m passing postings
\* among the first 2 * n kids of the thread that were fetched with success
C13_FirstOfCandidatesPassing ==
    /\ ArbeitnowFirstMin
    /\ hnPc = "Done" => HNJobsAre(FirstMin(CandidatesPassing, HNLimit))
\* the first candidate was fetched and filtered out, the second is the one job
\* returned at limit 1, and the thread holds more kids than candidates
C13_Witness ==
    /\ hnPc = "Done"
    /\ hnArgs[1].limit = Some(1)
    /\ Len(upstream.thread[1].value.kids) > Len(hnCommentIds)
    /\ Len(hnCommentIds) = 2 /\ hnFetch[1].st = "ok" /\ hnFetch[2].st = "ok"
    /\ Len(hnJobs) = 1 /\ hnJobs[1].source_url = ItemUrl(hnCommentIds[2])

(***************************************************************************)
(* Claim C14: the jobs returned match the filters of the call              *)
(***************************************************************************)
\* the text contains the filter, both lower-cased
ContainsFolded(text, filter) == Contains(to_lowercase(text), to_lowercase(filter))
\* the job matches the location filter: its location contains the filter (a
\* posting that is remote has a location that says so, so the filter "remote"
\* is covered by the containment)
MatchesLocation(job, loc) == ContainsFolded(job.location, loc)
\* the job holds the keyword in its title, description, company or tags
MatchesKeywords(job, kw) ==
    \/ ContainsFolded(job.title, kw)
    \/ ContainsFolded(job.description, kw)
    \/ ContainsFolded(job.company, kw)
    \/ \E t \in DOMAIN job.requirements : ContainsFolded(job.requirements[t], kw)

\* C14: every job an adapter returned matches the location filter of its call,
\* and every job returned by an adapter that filters client-side (HN Who's
\* Hiring, Arbeitnow) holds the keyword of its call
C14_ReturnedJobsMatchFilters ==
    \A k \in DOMAIN returned :
        returned[k].ok =>
            \A j \in DOMAIN returned[k].value :
                /\ IsSome(calls[k].location)
                      => MatchesLocation(returned[k].value[j], calls[k].location[1])
                /\ (IsSome(calls[k].keywords) /\ k \in {2, 3})
                      => MatchesKeywords(returned[k].value[j], calls[k].keywords[1])

(***************************************************************************)
(* Claim C15: termination of fetch_all                                     *)
(***************************************************************************)
\* C15: every fetch_all call eventually returns
C15_FetchAllReturns == (aggPc = "calling") ~> (aggPc = "returned")

(***************************************************************************)
(* Claim C16: the mappers are deterministic apart from id and scraped_at   *)
(***************************************************************************)
\* the fields of a mapped record other than id, scraped_at and posted_date
Stable(o) ==
    IF IsSome(o)
    THEN Some([title |-> o[1].title, company |-> o[1].company, location |-> o[1].location,
               description |-> o[1].description, requirements |-> o[1].requirements,
               salary_range |-> o[1].salary_range, source |-> o[1].source,
               source_url |-> o[1].source_url])
    ELSE None
PostedDate(o) == IF IsSome(o) THEN Some(o[1].posted_date) ELSE None
\* the record carries a timestamp the mapper can read
Timestamped(rec) ==
    IF fn = "remotive" THEN IsSome(parse_from_rfc3339(rec.publication_date))
    ELSE IF fn = "arbeitnow" THEN IsSome(timestamp_opt(rec.created_at))
    ELSE IsSome(rec.time) /\ IsSome(timestamp_opt(rec.time[1]))

\* C16 as stated: two mappings of the same payload are equal in every field
\* other than id and scraped_at, posted_date included, for every payload
C16_EqualApartFromIdAndScrapedAt ==
    Len(fnOut) = 2 =>
        \A i \in DOMAIN fnIn :
            /\ Stable(fnOut[1][i]) = Stable(fnOut[2][i])
            /\ PostedDate(fnOut[1][i]) = PostedDate(fnOut[2][i])
\* C16 amended: two mappings of the same payload are equal in title, company,
\* location, description, requirements, salary_range, source and source_url,
\* and in posted_date for every record whose timestamp is present and well-formed
C16_EqualApartFromFallbackDate ==
    Len(fnOut) = 2 =>
        \A i \in DOMAIN fnIn :
            /\ Stable(fnOut[1][i]) = Stable(fnOut[2][i])
            /\ Timestamped(fnIn[i]) => PostedDate(fnOut[1][i]) = PostedDate(fnOut[2][i])
\* an HN payload was mapped twice, one of its items with a readable time and
\* one without, both mapped to Jobs
C16_Witness ==
    /\ Len(fnOut) = 2
    /\ fn = "hn"
    /\ \E i, j \in DOMAIN fnIn :
          /\ Timestamped(fnIn[i]) /\ IsSome(fnOut[2][i])
          /\ ~Timestamped(fnIn[j]) /\ IsSome(fnOut[2][j])

(***************************************************************************)
(* Claim C17: upsert_by_source                                             *)
(***************************************************************************)
\* C17: the Job a completed upsert_by_source call returned carries the id of
\* a stored job with its source_url: the id just inserted, or the id that was
\* stored before the update
C17_ReturnedJobCarriesStoredId ==
    \A p \in DOMAIN upCalls :
        (upCalls[p].pc = "done" /\ upCalls[p].result[1].ok) =>
            \E r \in RowsWithUrl(upCalls[p].job[1].source_url) :
                dbRows[r].id = ToDecimal(upCalls[p].result[1].value.id)

(***************************************************************************)
(* Claims C18, C19: parse_salary (specification SpecSalary)                *)
(***************************************************************************)
\* the numeric tokens of the argument, in order of appearance
SalaryTokensOf(s) == NumbersFrom(to_lowercase(s), 1)

\* the range r is made of the tokens: None without tokens, else min the first
\* token and max the second, or the first again if there is no second
MadeOf(r, tokens) ==
    IF tokens = <<>> THEN r = None
    ELSE /\ IsSome(r)
         /\ r[1].min = tokens[1]
         /\ r[1].max = (IF Len(tokens) >= 2 THEN tokens[2] ELSE tokens[1])

\* C18: with no digit in the text the parser returns None; with one numeric
\* token min and max are that token; with two or more, min is the first token
\* and max the second, in order of appearance
C18_TokensInOrder ==
    salDone =>
        /\ salOut[1] = None <=> DigitRuns(salIn) = {}
        /\ MadeOf(salOut[1], SalaryTokensOf(salIn))
\* a text with two tokens, the first the larger, was parsed
C18_Witness ==
    /\ salDone
    /\ Len(SalaryTokensOf(salIn)) >= 2
    /\ salOut[1][1].min > salOut[1][1].max

\* the text holds one run of digits and neither ',' nor '.'
OneFigure(s) == Cardinality(DigitRuns(s)) = 1 /\ \A i \in DOMAIN s : s[i] \notin {",", "."}
\* the index after the one run of digits of s
FigureEnd(s) == SkipChars(s, Digits, CHOOSE i \in DigitRuns(s) : TRUE)
\* the one figure of s, times 1000 if a 'k' follows it (after any whitespace)
FigureValue(s) ==
    DecimalValue(SubSeq(s, CHOOSE i \in DigitRuns(s) : TRUE, FigureEnd(s) - 1))
      * (IF /\ SkipChars(s, Whitespace, FigureEnd(s)) <= Len(s)
            /\ s[SkipChars(s, Whitespace, FigureEnd(s))] \in {"k", "K"}
         THEN 1000 ELSE 1)
\* the lower-cased text names an hourly rate
SaysHourly(s) ==
    \E w \in {<<"/","h","o","u","r">>, <<"p","e","r"," ","h","o","u","r">>, <<"/","h","r">>} : Contains(to_lowercase(s), w)

\* C19: a figure suffixed with 'k' counts 1000 times, an unsuffixed one as it
\* is; the period is Hourly exactly when the lower-cased text contains "/hour",
\* "per hour" or "/hr", else Annual; the three sample texts give the ranges named
C19_SuffixAndPeriod ==
    salDone =>
        /\ OneFigure(salIn) => salOut[1][1].min = FigureValue(salIn)
        /\ IsSome(salOut[1]) =>
              salOut[1][1].period = (IF SaysHourly(salIn) THEN "Hourly" ELSE "Annual")
        /\ salIn = <<"$","5","0","k","-","$","8","0","k">> =>
              salOut[1] = Some([min |-> 50000, max |-> 80000, currency |-> "USD",
                                period |-> "Annual"])
        /\ salIn = <<"$","3","0","-","$","3","5","/","h","o","u","r">> =>
              salOut[1] = Some([min |-> 30, max |-> 35, currency |-> "USD",
                                period |-> "Hourly"])
        /\ salIn = <<"c","o","m","p","e","t","i","t","i","v","e">> => salOut[1] = None
\* a single figure with a 'k' after a blank was parsed as an hourly rate
C19_Witness ==
    /\ salDone
    /\ OneFigure(salIn)
    /\ FigureValue(salIn) >= 1000
    /\ FigureEnd(salIn) <= Len(salIn) /\ salIn[FigureEnd(salIn)] = " "
    /\ salOut[1][1].period = "Hourly"

(***************************************************************************)
(* Claim C20: extract_technologies (specification SpecTech)                *)
(***************************************************************************)
\* word occurs in text at some position, both already lower-cased
OccursIn(text, word) ==
    \E i \in 1..(Len(text) - Len(word) + 1) :
        \A k \in 1..Len(word) : text[i + k - 1] = word[k]
\* the position of an entry in the vocabulary
TechIndex(tech) == CHOOSE i \in DOMAIN Techs : Techs[i] = tech
\* out holds exactly the entries of the vocabulary that occur in the
\* lower-cased text, as the vocabulary writes them and in its order
ExactlyTheOccurring(out, text_lower) ==
    /\ \A j \in DOMAIN out : \E i \in DOMAIN Techs : Techs[i] = out[j]
    /\ \A i \in DOMAIN Techs :
          OccursIn(text_lower, to_lowercase(Techs[i]))
             <=> \E j \in DOMAIN out : out[j] = Techs[i]
    /\ \A a, b \in DOMAIN out : a < b => TechIndex(out[a]) < TechIndex(out[b])

\* C20: extract_technologies returns exactly the vocabulary entries that occur
\* in the text, matched case-insensitively, in the vocabulary's casing and
\* order and without duplicates; for the sample sentence Python, React, AWS
C20_ExactlyVocabularyPresent ==
    fnOut # <<>> =>
        /\ ExactlyTheOccurring(fnOut[1], to_lowercase(fnIn))
        /\ fnIn \in TechFixtures => fnOut[1] = <<<<"P","y","t","h","o","n">>, <<"R","e","a","c","t">>, <<"A","W","S">>>>
\* a text that writes Python in lower case and holds a second entry was scanned
C20_Witness ==
    /\ fnOut # <<>>
    /\ Len(fnOut[1]) >= 2
    /\ fnOut[1][1] = <<"P","y","t","h","o","n">>
    /\ ~OccursIn(fnIn, <<"P","y","t","h","o","n">>)

(***************************************************************************)
(* Claims C21, C22: parse_first_line (specification SpecHeader)            *)
(***************************************************************************)
\* the positions of the pipes of a line, and the k-th of them (0 before the
\* first, one past the end after the last)
PipePositions(line) == {i \in 1..Len(line) : line[i] = "|"}
NthPipe(line, k) ==
    IF k = 0 THEN 0
    ELSE IF k > Cardinality(PipePositions(line)) THEN Len(line) + 1
    ELSE CHOOSE p \in PipePositions(line) :
            Cardinality({q \in PipePositions(line) : q <= p}) = k
\* segment k (counted from 0) of a line split on the pipe, trimmed
Segment(line, k) == trim(Slice(line, NthPipe(line, k) + 1, NthPipe(line, k + 1) - 1))
\* the trimmed segments from segment 2 on, joined in order with " | "
RECURSIVE RestFrom(_, _)
RestFrom(line, k) ==
    IF k > Cardinality(PipePositions(line)) THEN <<>>
    ELSE IF k = Cardinality(PipePositions(line)) THEN Segment(line, k)
    ELSE Segment(line, k) \o <<" ","|"," ">> \o RestFrom(line, k + 1)

\* C21 as worded: for every line with a pipe, company is segment 0, title is
\* segment 1 and location is the remaining segments joined in order
C21_PipeSplitFirst ==
    (fnOut # <<>> /\ PipePositions(fnIn) # {}) =>
        fnOut[1] = <<Segment(fnIn, 0), Segment(fnIn, 1), RestFrom(fnIn, 2)>>
\* C21 (amended): the pipe split is tried first: for every line with a pipe,
\* whatever else it contains, company is segment 0 and title is segment 1, both
\* trimmed, and location is the remaining trimmed segments joined with " | "
\* when there are three or more segments and "Unknown" when there are exactly
\* two; only a line without a pipe gets its location from the keyword scan of
\* the hiring-pattern and fallback rules
C21_PipeSplitFirstWithDefault ==
    fnOut # <<>> =>
        IF PipePositions(fnIn) # {}
        THEN /\ fnOut[1][1] = Segment(fnIn, 0)
             /\ fnOut[1][2] = Segment(fnIn, 1)
             /\ fnOut[1][3] = IF Cardinality(PipePositions(fnIn)) >= 2
                              THEN RestFrom(fnIn, 2) ELSE <<"U","n","k","n","o","w","n">>
        ELSE fnOut[1][3] = detect_location(fnIn)
\* a line that holds the hiring phrase before its first pipe was parsed by
\* the pipe rule
C21_Witness ==
    /\ fnIn = <<"A","c","m","e"," ","i","s"," ","h","i","r","i","n","g"," ","|"," ","R","u","s","t"," ","D","e","v"," ","|"," ","B","e","r","l","i","n">>
    /\ fnOut = << <<<<"A","c","m","e"," ","i","s"," ","h","i","r","i","n","g">>, <<"R","u","s","t"," ","D","e","v">>, <<"B","e","r","l","i","n">>>> >>

\* C22: for every input line parse_first_line returns a company, a title and
\* a location that are all non-empty
C22_AllFieldsNonEmpty ==
    fnOut # <<>> => \A k \in 1..3 : fnOut[1][k] # <<>>

(***************************************************************************)
(* Claim C27: detect_location (specification SpecLocation)                 *)
(***************************************************************************)
\* the text holds the upper-case word when case is ignored
Mentions(text, word) ==
    \E i \in 1..(Len(text) - Len(word) + 1) :
        \A k \in 1..Len(word) : UpperChar(text[i + k - 1]) = word[k]
\* the text holds the city as it is written in the list
Names(text, c) ==
    \E i \in 1..(Len(text) - Len(Cities[c]) + 1) :
        \A k \in 1..Len(Cities[c]) : text[i + k - 1] = Cities[c][k]
SaysRemote(text) == Mentions(text, <<"R","E","M","O","T","E">>)
SaysUS(text) == Mentions(text, <<"U","S">>) \/ Mentions(text, <<"U","S","A">>)
SaysEU(text) == Mentions(text, <<"E","U">>) \/ Mentions(text, <<"E","U","R","O","P","E">>)
SaysOnsite(text) == Mentions(text, <<"O","N","S","I","T","E">>) \/ Mentions(text, <<"O","N","-","S","I","T","E">>)

\* C27: detect_location scans with fixed priority: a text with REMOTE (any
\* case) yields "Remote (US)" if it also holds US/USA, else "Remote (EU)" if it
\* holds EU/EUROPE, else "Remote"; otherwise a text with ONSITE or ON-SITE
\* yields "<city> (Onsite)" for the first listed city present, else "Onsite";
\* every other text yields "Unknown"
C27_FixedPriority ==
    fnOut # <<>> =>
        /\ (SaysRemote(fnIn) /\ SaysUS(fnIn)) => fnOut[1] = <<"R","e","m","o","t","e"," ","(","U","S",")">>
        /\ (SaysRemote(fnIn) /\ ~SaysUS(fnIn) /\ SaysEU(fnIn))
              => fnOut[1] = <<"R","e","m","o","t","e"," ","(","E","U",")">>
        /\ (SaysRemote(fnIn) /\ ~SaysUS(fnIn) /\ ~SaysEU(fnIn))
              => fnOut[1] = <<"R","e","m","o","t","e">>
        /\ (~SaysRemote(fnIn) /\ SaysOnsite(fnIn)) =>
              \/ \E c \in DOMAIN Cities :
                    /\ Names(fnIn, c)
                    /\ \A b \in 1..(c - 1) : ~Names(fnIn, b)
                    /\ fnOut[1] = Cities[c] \o <<" ","(","O","n","s","i","t","e",")">>
              \/ /\ \A c \in DOMAIN Cities : ~Names(fnIn, c)
                 /\ fnOut[1] = <<"O","n","s","i","t","e">>
        /\ (~SaysRemote(fnIn) /\ ~SaysOnsite(fnIn)) => fnOut[1] = <<"U","n","k","n","o","w","n">>
        /\ fnIn = <<"W","e"," ","a","r","e"," ","R","E","M","O","T","E"," ","f","i","r","s","t">> => fnOut[1] = <<"R","e","m","o","t","e">>
        /\ fnIn = <<"R","E","M","O","T","E"," ","(","U","S"," ","o","n","l","y",")">> => fnOut[1] = <<"R","e","m","o","t","e"," ","(","U","S",")">>
\* an onsite text naming Berlin before Austin was scanned and gave Austin,
\* the earlier of the two in the list
C27_Witness ==
    /\ fnOut = <<<<"A","u","s","t","i","n"," ","(","O","n","s","i","t","e",")">>>>
    /\ \E i \in 1..Len(fnIn) : MatchAt(fnIn, <<"B","e","r","l","i","n">>, i) /\ MatchAt(fnIn, <<"A","u","s","t","i","n">>, i + 6)

(***************************************************************************)
(* Claim C23: the candidates of a thread (specification Spec)              *)
(***************************************************************************)
\* the positions of comment_ids whose get_item was issued
Issued == {i \in DOMAIN hnFetch : hnFetch[i].st # "none"}
\* the kids of the root item as the upstream served them
RootKids ==
    IF IsSome(upstream.thread) /\ upstream.thread[1].ok
    THEN upstream.thread[1].value.kids ELSE <<>>
\* the limit n of the fetch_jobs call (100 when the caller gave none)
CallLimit == IF IsSome(hnArgs[1].limit) THEN hnArgs[1].limit[1] ELSE 100
\* every child fetch issued so far is for one of the first min(2n, number of
\* children) ids of the root item
IssuedAmongFirst ==
    \A i \in Issued :
        /\ i <= 2 * CallLimit
        /\ i <= Len(RootKids)
        /\ hnCommentIds[i] = RootKids[i]
        /\ \A j \in Issued : hnCommentIds[j] = hnCommentIds[i] => j = i
\* a step issues no fetch again: a completed fetch keeps its result and a
\* fetch in flight only completes
IssuedOnce ==
    \A i \in Issued :
        /\ i \in DOMAIN hnFetch'
        /\ hnFetch[i].st \in {"ok", "err"} => hnFetch'[i] = hnFetch[i]
        /\ hnFetch[i].st = "inflight" => hnFetch'[i].st \in {"inflight", "ok", "err"}

\* C23: a fetch_jobs call with limit n issues child-item fetches only for the
\* first min(2n, number of children) ids of the root item, each at most once
C23_AtMostTwiceLimitCandidates == [](IssuedAmongFirst) /\ [][IssuedOnce]_vars
\* a call with limit 1 on a thread of three children has fetched two of them
\* and returned
C23_Witness ==
    /\ hnPc = "Done"
    /\ Len(RootKids) = 3
    /\ hnArgs[1].limit = Some(1)
    /\ Cardinality(Issued) = 2
    /\ \A i \in Issued : hnFetch[i].st \in {"ok", "err"}

(***************************************************************************)
(* Claim C24: deleted, dead and textless children (specification Spec)     *)
(***************************************************************************)
\* the item the i-th candidate was fetched as
Fetched(i) == hnFetch[i].st = "ok"
\* upstream marks the item deleted or dead
MarkedGone(i) ==
    \/ HNCatalogue[hnFetch[i].kind].deleted = Some(TRUE)
    \/ HNCatalogue[hnFetch[i].kind].dead = Some(TRUE)
Textless(i) == HNCatalogue[hnFetch[i].kind].text = None
\* the jobs of the result that originate from the i-th candidate
JobsFrom(i) == {j \in DOMAIN hnJobs : hnJobs[j].source_url = ItemUrl(hnCommentIds[i])}
\* the posting of the i-th candidate passes the filters of the call: the
\* keyword occurs in its title, description or company and the location
\* filter occurs in its location, case ignored
PostingPasses(i) ==
    LET job == parse_hn_job_posting(HNItemOf(i), 0, 0)[1]
    IN  /\ IsSome(hnArgs[1].keywords) =>
              \/ ContainsFolded(job.title, hnArgs[1].keywords[1])
              \/ ContainsFolded(job.description, hnArgs[1].keywords[1])
              \/ ContainsFolded(job.company, hnArgs[1].keywords[1])
        /\ IsSome(hnArgs[1].location) =>
              ContainsFolded(job.location, hnArgs[1].location[1])

\* C24: no job of the result originates from a child that upstream marks
\* deleted or dead, from a child without text or from a child whose fetch
\* failed; and when the call has returned, every other candidate fetched with
\* success that passes the filters has its job in the result, unless the
\* result holds limit jobs
C24_OnlyLivePostingsAccepted ==
    /\ \A j \in DOMAIN hnJobs :
          \E i \in DOMAIN hnFetch :
              /\ j \in JobsFrom(i)
              /\ Fetched(i) /\ ~MarkedGone(i) /\ ~Textless(i)
    /\ hnPc = "Done" =>
          \A i \in DOMAIN hnFetch :
              (Fetched(i) /\ ~MarkedGone(i) /\ ~Textless(i) /\ PostingPasses(i))
                 => \/ Cardinality(JobsFrom(i)) = 1
                    \/ Len(hnJobs) >= CallLimit
\* the call returned one job, of a live posting, after it also fetched a
\* posting marked dead whose text passes the filters
C24_Witness ==
    /\ hnPc = "Done"
    /\ Len(hnJobs) = 1
    /\ \E i, k \in DOMAIN hnFetch :
          /\ Fetched(i) /\ HNCatalogue[hnFetch[i].kind].dead = Some(TRUE)
          /\ ~Textless(i) /\ PostingPasses(i)
          /\ Fetched(k) /\ ~MarkedGone(k) /\ JobsFrom(k) = {1}
    /\ Len(hnJobs) < CallLimit

(***************************************************************************)
(* Claims C25, C26: root resolution (specification SpecRoot)               *)
(***************************************************************************)
\* the submission list the user request was answered with
Submissions == IF IsSome(fnIn) /\ fnIn[1].ok THEN fnIn[1].value ELSE <<>>
\* the titles that hold "Who is hiring?"
HiringTitles ==
    {t \in DOMAIN HNTitles :
        /\ IsSome(HNTitles[t])
        /\ \E i \in 1..Len(HNTitles[t][1]) : MatchAt(HNTitles[t][1], <<"W","h","o"," ","i","s"," ","h","i","r","i","n","g","?">>, i)}
\* the k-th get_item of the scan succeeded and its title holds "Who is hiring?"
IsHiringThread(k) == fnOut[k].kind \in HiringTitles
\* get_latest_hiring_thread_id returned Ok
RootResolved == hnPc = "FetchChildIds" /\ IsSome(hnThreadId)
NoMatchExamined == \A k \in DOMAIN fnOut : ~IsHiringThread(k)
EmptyListIsError ==
    (IsSome(fnIn) /\ fnIn[1].ok /\ fnIn[1].value = <<>>) =>
        hnPc = "Error" /\ hnError = Some("No threads found") /\ fnOut = <<>>

\* C25 as worded: when none of the examined submissions has a matching title
\* the root is the oldest submission of the list, which upstream serves
\* newest first; an empty list is an error
C25_FallbackToOldest ==
    /\ (RootResolved /\ NoMatchExamined) =>
           hnThreadId = Some(Submissions[Len(Submissions)])
    /\ EmptyListIsError
\* C25 (amended): when none of the examined submissions has a matching title
\* the root is the first entry of the submitter's list, the most recent
\* submission; an empty list is an error
C25_FallbackToFirst ==
    /\ (RootResolved /\ NoMatchExamined) => hnThreadId = Some(Submissions[1])
    /\ EmptyListIsError
\* the scan examined two or more submissions, one of which could not be
\* fetched, found no match and fell back
C25_Witness ==
    /\ RootResolved /\ NoMatchExamined
    /\ Len(fnOut) >= 2 /\ Len(fnOut) = Len(Submissions)
    /\ \E k \in DOMAIN fnOut : fnOut[k].kind = 0
    /\ hnThreadId = Some(Submissions[1])

\* C26: the scan fetches only the first 10 entries of the list, one at a time
\* in list order; a matching entry ends the scan and is the root returned, so
\* no entry after a match is fetched, the root found by the scan is the first
\* fetched entry with a matching title, and an entry at position 11 or later
\* is never fetched or chosen by the scan
C26_ScanWindow ==
    /\ Len(fnOut) <= 10 /\ Len(fnOut) <= Len(Submissions)
    /\ \A k \in DOMAIN fnOut : fnOut[k].id = Submissions[k]
    /\ \A k \in DOMAIN fnOut :
          IsHiringThread(k) =>
              /\ k = Len(fnOut)
              /\ RootResolved /\ hnThreadId = Some(Submissions[k])
    /\ RootResolved =>
          \/ \E k \in DOMAIN fnOut : IsHiringThread(k)
          \/ /\ Len(fnOut) = (IF Len(Submissions) < 10 THEN Len(Submissions) ELSE 10)
             /\ hnThreadId = Some(Submissions[1])
    /\ hnPc = "Scan" => hnScanPos = Len(fnOut)
\* the list holds more than 10 entries and the scan stopped after the tenth
\* without a match
C26_Witness ==
    /\ RootResolved /\ NoMatchExamined
    /\ Len(Submissions) > 10
    /\ Len(fnOut) = 10

(***************************************************************************)
(* Claim C28: search by source set (specification SpecSearch)              *)
(***************************************************************************)
\* the stored rows whose source is in the set of the query and that pass its
\* keyword, location and minimum-salary filters
StoredMatching(query) ==
    {r \in DOMAIN dbRows :
        /\ \E i \in DOMAIN query.sources : dbRows[r].source = source_str(query.sources[i])
        /\ IsSome(query.keywords) =>
              \/ ContainsFolded(dbRows[r].title, query.keywords[1])
              \/ ContainsFolded(dbRows[r].description, query.keywords[1])
              \/ ContainsFolded(dbRows[r].company, query.keywords[1])
        /\ IsSome(query.location) => ContainsFolded(dbRows[r].location, query.location[1])
        /\ IsSome(query.min_salary) =>
              IsSome(dbRows[r].salary_min) /\ dbRows[r].salary_min[1] >= query.min_salary[1]}

\* C28: a search with a non-empty source set returns only stored jobs whose
\* source is in the set and that pass the other filters, and, when limit and
\* offset cut nothing, it returns every such job: none is left out
C28_SearchBySourceSet ==
    (fnOut # <<>> /\ fnIn.sources # <<>> /\ fnOut[1].ok) =>
        /\ \A j \in DOMAIN fnOut[1].value :
              \E r \in StoredMatching(fnIn) :
                  dbRows[r].id = ToDecimal(fnOut[1].value[j].id)
        /\ (~IsSome(fnIn.limit) /\ ~IsSome(fnIn.offset)) =>
              \A r \in StoredMatching(fnIn) :
                  \E j \in DOMAIN fnOut[1].value :
                      dbRows[r].id = ToDecimal(fnOut[1].value[j].id)

(***************************************************************************)
(* Claim C30: the order of the jobs returned (specification SpecOrder)     *)
(***************************************************************************)
\* the positions in the root item's child list of the child a job originates from
OriginsOf(j) == {i \in DOMAIN RootKids : hnJobs[j].source_url = ItemUrl(RootKids[i])}

\* C30: the jobs appear in the order of their child ids in the root item's
\* child list, whatever order the child fetches of a batch complete in: each
\* job originates from one child of the list, a later job from a later child,
\* so no child yields more than one job
C30_JobsInChildOrder ==
    /\ \A j \in DOMAIN hnJobs : Cardinality(OriginsOf(j)) = 1
    /\ \A a, b \in DOMAIN hnJobs :
          a < b => \A i \in OriginsOf(a), k \in OriginsOf(b) : i < k
\* the fetches of a batch of three completed last child first, and the call
\* returned the jobs of the first and the last child in list order
C30_Witness ==
    /\ hnPc = "Done"
    /\ fnOut = <<3, 2, 1>>
    /\ Len(hnJobs) = 2
    /\ OriginsOf(1) = {1} /\ OriginsOf(2) = {3}

(***************************************************************************)
(* Claim C29: one stored job per source_url (specification SpecRepo)       *)
(***************************************************************************)
\* C29: after any sequence and any interleaving of upsert_by_source calls the
\* table holds at most one row per source_url
C29_AtMostOneJobPerSourceUrl ==
    \A r, q \in DOMAIN dbRows : dbRows[r].source_url = dbRows[q].source_url => r = q
====
